---- MODULE Spec2Model ----
(***************************************************************************)
(* Booking confirmation, slot allocation and payment reconciliation of the *)
(* clinic backend.  The store collections are the variables; every request *)
(* handler is a process whose steps are the awaits of its code, so that    *)
(* two handlers interleave exactly where the code can be suspended.        *)
(***************************************************************************)
EXTENDS Integers, Sequences, FiniteSets, TLC

VARIABLES
    pending_bookings,      \* collection pending_bookings: orderId -> document
    appointment_bookings,  \* collection appointment_bookings: docId -> bookings list
    refunds,               \* collection refunds: set of refund documents
    failed_refunds,        \* collection failed_refunds: ids of manual_required documents
    webhook_logs,          \* collection webhook_logs: set of log documents (auto ids)
    clinic_control,        \* document clinic_control/status
    gateway,               \* payment state of each order at the payment gateway
    gw_refunds,            \* refunds accepted by the gateway, per order
    hs,                    \* request handlers in flight: position and locals
    requestsLeft,          \* requestsLeft that may still arrive in this behaviour
    faultsLeft,            \* store operations that may still fail in this behaviour
    phonepe_env,           \* process.env.PHONEPE_ENV
    today,                 \* the calendar day the server clock shows
    cleanup,               \* the un-awaited cleanupOldWebhookLogs task
    handled                \* (transactionId, eventType) of the webhooks answered 200

vars == <<pending_bookings, appointment_bookings, refunds, failed_refunds,
          webhook_logs, clinic_control, gateway, gw_refunds, hs, requestsLeft,
          faultsLeft, phonepe_env, today, cleanup, handled>>

stores == <<pending_bookings, appointment_bookings, refunds, failed_refunds,
            webhook_logs>>

-----------------------------------------------------------------------------
(* Bounds of the model *)

MaxRequests == 2      \* requests received in one behaviour
MaxFaults == 1        \* store operations that fail in one behaviour

(* Program constants *)

Capacity == 10        \* bookings.length >= 10
MaxAttempts == 5      \* attempts of db.runTransaction before it rejects

-----------------------------------------------------------------------------
(* Values *)

Handlers == {1, 2}
Orders == {"o1", "o2"}
NoDoc == [exists |-> FALSE, bookings |-> <<>>]    \* docSnap.exists is false
DateA == <<2025, 6, 3>>          \* YYYY-MM-DD, split at '-'

SuccessEvents == {"CHECKOUT_ORDER_COMPLETED"}
FailureEvents == {"CHECKOUT_ORDER_FAILED"}
Events == SuccessEvents \cup FailureEvents
\* PG_REFUND_COMPLETED goes to handleRefundCompleted; PG_REFUND_FAILED and
\* PG_REFUND_ACCEPTED both go to handleRefundFailed.
RefundEvents == {"PG_REFUND_ACCEPTED", "PG_REFUND_COMPLETED", "PG_REFUND_FAILED"}

\* A document id with the month where the day belongs.
formatDateToDocId_MonthTwice(dateString) ==
    <<dateString[2], dateString[2], dateString[1]>>

\* const [year, month, day] = dateString.split('-'); `${day}-${month}-${year}`
\* on the parts of the split date
formatDateToDocId(dateString) ==
    <<dateString[3], dateString[2], dateString[1]>>

\* Strings are sequences of characters; a digit is the number it shows, and
\* the other characters are their character codes.
Dash == 45            \* '-'
Undefined == <<117, 110, 100, 101, 102, 105, 110, 101, 100>>   \* `${undefined}`

\* str.split('-'): the parts between the dashes (one part, str itself,
\* when there is no dash)
RECURSIVE Split(_)
Split(str) ==
    IF \A i \in 1..Len(str) : str[i] # Dash THEN <<str>>
    ELSE LET i == CHOOSE k \in 1..Len(str) :
                      str[k] = Dash /\ \A j \in 1..(k - 1) : str[j] # Dash IN
         <<SubSeq(str, 1, i - 1)>> \o Split(SubSeq(str, i + 1, Len(str)))

\* const [year, month, day] = parts: the first three parts, undefined where
\* there are fewer
Destructure(parts) ==
    [i \in 1..3 |-> IF i <= Len(parts) THEN parts[i] ELSE Undefined]

\* `${a}-${b}-${c}`
Template(parts) == parts[1] \o <<Dash>> \o parts[2] \o <<Dash>> \o parts[3]

\* formatDateToDocId on a string: split, reorder, put together again.
DocIdOf(dateString) == Template(formatDateToDocId(Destructure(Split(dateString))))

DocIds == {formatDateToDocId(DateA)}

\* A date document holding a bookings list.
DateDoc(bookings) == [exists |-> TRUE, bookings |-> bookings]

Max(a, b) == IF a >= b THEN a ELSE b

\* bookings.reduce((max, b) => Math.max(max, b.slotNumber), 0)
RECURSIVE maxSlot(_)
maxSlot(bookings) ==
    IF bookings = <<>> THEN 0
    ELSE Max(maxSlot(Tail(bookings)), Head(bookings).slotNumber)

\* A date document as earlier confirmations left it: k bookings, slots 1..k.
Prefilled(k) ==
    IF k = 0 THEN NoDoc
    ELSE DateDoc([i \in 1..k |->
                    [slotNumber |-> i, orderId |-> "prev", patient |-> "prev"]])

\* The pending booking createPendingBooking writes for an order.
PendingDoc(o) ==
    [exists |-> TRUE, date |-> DateA, patient |-> o, status |-> "pending",
     slotNumber |-> 0, old |-> FALSE, failedAt |-> 0]

\* old: createdAt is more than 24 hours ago (cleanupOldPendingBookings).
\* failedAt: the server timestamp cancelBooking wrote, at the resolution of a
\* day; 0 while the field is absent.
\* pendingBookingSnap.exists is false
NoPending ==
    [exists |-> FALSE, date |-> <<0, 0, 0>>, patient |-> "none", status |-> "none",
     slotNumber |-> 0, old |-> FALSE, failedAt |-> 0]

-----------------------------------------------------------------------------
(* Clinic Availability Service *)

\* Days are numbered from 1; 0 stands for a closedFrom / closedTill left
\* undefined (falsy in the code).
NoControl == [exists |-> FALSE, isManuallyOverridden |-> FALSE,
              closedFrom |-> 0, closedTill |-> 0]

Defined(day) == day > 0

\* A closed period with exclusive bounds: < and > where the code has <= and >=.
isClinicOpen_Exclusive(control, day, readOk) ==
    IF ~readOk THEN TRUE
    ELSE IF ~control.exists THEN TRUE
    ELSE IF ~control.isManuallyOverridden THEN TRUE
    ELSE IF Defined(control.closedFrom) /\ control.closedFrom < day
              /\ (~Defined(control.closedTill) \/ control.closedTill > day)
         THEN FALSE
    ELSE TRUE

\* A service that reports closed when the read fails.
isClinicOpen_FailClosed(control, day, readOk) ==
    IF ~readOk THEN FALSE
    ELSE IF ~control.exists THEN TRUE
    ELSE IF ~control.isManuallyOverridden THEN TRUE
    ELSE IF Defined(control.closedFrom) /\ control.closedFrom <= day
              /\ (~Defined(control.closedTill) \/ control.closedTill >= day)
         THEN FALSE
    ELSE TRUE

\* isClinicOpen: the isOpen field of its answer, for the control document and
\* the day it reads; readOk = FALSE is the read that throws (fail-open).
isClinicOpen(control, day, readOk) ==
    IF ~readOk THEN TRUE
    ELSE IF ~control.exists THEN TRUE
    ELSE IF ~control.isManuallyOverridden THEN TRUE
    ELSE IF Defined(control.closedFrom) /\ control.closedFrom <= day
              /\ (~Defined(control.closedTill) \/ control.closedTill >= day)
         THEN FALSE
    ELSE TRUE

\* What the service would answer now, the read succeeding.
ClinicOpenNow == isClinicOpen(clinic_control, today, TRUE)

-----------------------------------------------------------------------------
(* Handlers *)

\* The body of a create-order request: fields tells whether date, name,
\* gender, age and phone are all present; phone is its string of digits.
NoReq == [fields |-> FALSE, amount |-> 0, phone |-> <<>>, date |-> <<0, 0, 0>>]

\* Locals of a handler.  signal, hadPending, closedAtSignal and refundTried
\* record what happened to the handler (the payment signal it was given,
\* whether it found the pending booking, whether the clinic was closed when it
\* took up a success signal, whether it called initiateRefund); the other
\* fields are variables of the code (pendingStatus is pendingData.status as
\* confirmBooking read it, slot is result.slotNumber of the transaction).
\* validated tells whether the SDK validated the callback; nothing reads it
\* after the duplicate query, and it is kept only until then.
\* For create-order: req is req.body, hour is now.getHours() as the handler
\* read it, and deleted records that its cleanupOldPendingBookings deleted a
\* pending booking; docId is the document id computed from the date string.
\* pendingData is what confirmBooking keeps of the pending booking it read.
\* closedFrom and closedTill are the fields of req.body of POST /control-clinic.
NoData == [date |-> <<0, 0, 0>>, patient |-> "none"]

Idle == [pc |-> "idle", kind |-> "none", txn |-> "none", ev |-> "none",
         signal |-> "none", hadPending |-> FALSE, closedAtSignal |-> FALSE,
         clinicStatus |-> "none", snap |-> NoDoc, attempts |-> 0, slot |-> 0,
         pendingStatus |-> "none", refundTried |-> FALSE, refundId |-> 0,
         logId |-> 0, validated |-> FALSE, cbResult |-> "none", resp |-> "none",
         req |-> NoReq, hour |-> 0, deleted |-> FALSE, docId |-> <<>>,
         pendingData |-> NoData, closedFrom |-> 0, closedTill |-> 0]

\* Outcomes of a store operation: it succeeds, or (while the fault budget
\* lasts) it throws.
StoreOutcomes == IF faultsLeft > 0 THEN {TRUE, FALSE} ELSE {TRUE}

Fault(ok) == faultsLeft' = IF ok THEN faultsLeft ELSE faultsLeft - 1

Done(rec, r) == [rec EXCEPT !.pc = "done", !.resp = r, !.snap = NoDoc,
                            !.attempts = 0]

\* A request is given to the lowest free handler (handlers are interchangeable).
Free(h) == /\ hs[h].pc = "idle"
           /\ \A g \in Handlers : g < h => hs[g].pc # "idle"
           /\ requestsLeft > 0

NoCleanup == [pc |-> "idle", batch |-> {}]

\* The orders at the gateway: o1 is paid, the payment of o2 failed.
PaidAndFailed == [o \in Orders |-> IF o = "o1" THEN "SUCCESS" ELSE "FAILED"]

\* Both orders were created (their pending bookings exist); the date document
\* is absent, one short of full, or full; the clinic is open.
Init ==
    /\ pending_bookings = [o \in Orders |-> PendingDoc(o)]
    /\ appointment_bookings \in
           [DocIds -> {Prefilled(0), Prefilled(Capacity - 1), Prefilled(Capacity)}]
    /\ refunds = {}
    /\ failed_refunds = {}
    /\ webhook_logs = {}
    /\ clinic_control = NoControl
    /\ gateway = PaidAndFailed
    /\ gw_refunds = [o \in Orders |-> 0]
    /\ hs = [h \in Handlers |-> Idle]
    /\ requestsLeft = MaxRequests
    /\ faultsLeft = MaxFaults
    /\ phonepe_env \in {"SANDBOX", "PRODUCTION"}
    /\ today = 3
    /\ cleanup = NoCleanup
    /\ handled = {}

Set(h, rec) == hs' = [hs EXCEPT ![h] = rec]

-----------------------------------------------------------------------------
(* Booking Ledger: confirmBooking, one action per await *)

\* A transaction with no capacity test.
SlotsFull_Never(snap) == FALSE

\* The capacity test with the comparison off by one: > where the code has >=.
SlotsFull_OffByOne(snap) == snap.exists /\ Len(snap.bookings) > Capacity

\* A capacity test that counts the pending bookings as taken slots.
SlotsFull_CountsPending(snap) ==
    /\ snap.exists
    /\ Len(snap.bookings)
         + Cardinality({o \in Orders : pending_bookings[o].status = "pending"})
         > Capacity

\* if (bookings.length >= 10) throw new Error('NO_SLOTS_AVAILABLE'), reached
\* only when docSnap.exists
SlotsFull(snap) == snap.exists /\ Len(snap.bookings) >= Capacity

\* A slot computation that skips a number: maxSlot + 2.
NextSlotNumber_Skips(snap) ==
    IF snap.exists THEN maxSlot(snap.bookings) + 2 ELSE 1

\* nextSlotNumber: 1 for an absent document, else maxSlot + 1
NextSlotNumber(snap) ==
    IF snap.exists THEN maxSlot(snap.bookings) + 1 ELSE 1

\* newBooking, with the fields of the pending booking read at the start
NewBooking(o, pendingData, slotNumber) ==
    [slotNumber |-> slotNumber, orderId |-> o, patient |-> pendingData.patient]

\* A store that commits whatever happened to the document since the read.
TxUnchanged_NoCheck(current, snap) == TRUE

\* The store commits a transaction only if the document it read is unchanged
\* since the read; otherwise the transaction function is run again.
TxUnchanged(current, snap) == current = snap

\* const pendingData = pendingBookingSnap.data(): the fields confirmBooking
\* uses of it (patient stands for name, gender, age, phone and amount).
DataOf(doc) == [date |-> doc.date, patient |-> doc.patient]

\* A confirmBooking that writes every booking to the document of one date.
TxDocId_OneDate(pendingData) == formatDateToDocId(DateA)

\* const docId = formatDateToDocId(pendingData.date)
TxDocId(pendingData) == formatDateToDocId(pendingData.date)

\* A webhook handler that answers 500 when confirmBooking returns a failure.
AfterConfirm_FailureIs500(rec, result) ==
    LET r == [rec EXCEPT !.cbResult = result, !.snap = NoDoc, !.attempts = 0,
                         !.pendingData = NoData] IN
    IF result = "success"
    THEN [r EXCEPT !.pc = IF rec.kind = "poll" THEN "p_delete" ELSE "hs_delete"]
    ELSE Done(r, IF rec.kind = "poll" THEN result ELSE "500")

\* How the caller goes on once confirmBooking has returned.
AfterConfirm(rec, result) ==
    LET r == [rec EXCEPT !.cbResult = result, !.snap = NoDoc, !.attempts = 0,
                         !.pendingData = NoData] IN
    IF rec.kind = "poll"
    THEN IF result = "success" THEN [r EXCEPT !.pc = "p_delete"]
         ELSE Done(r, result)
    ELSE IF result = "success" THEN [r EXCEPT !.pc = "hs_delete"]
         ELSE [r EXCEPT !.pc = "w_mark"]

\* A confirmBooking that goes on to the transaction without looking at
\* pendingBookingSnap.exists.
CbGet_NoExistsCheck(h) ==
    LET rec == hs[h] IN
    /\ rec.pc = "cb_get"
    /\ Set(h, [rec EXCEPT !.pc = "cb_txread",
                          !.pendingStatus = pending_bookings[rec.txn].status,
                          !.pendingData = DataOf(PendingDoc(rec.txn))])
    /\ UNCHANGED <<stores, clinic_control, gateway, gw_refunds, requestsLeft, faultsLeft,
                   phonepe_env, today, cleanup,
                   handled>>

\* pendingBookingRef.get()
CbGet(h) ==
    LET rec == hs[h] IN
    /\ rec.pc = "cb_get"
    /\ IF ~pending_bookings[rec.txn].exists
       THEN Set(h, AfterConfirm(rec, "Pending booking not found"))
       ELSE Set(h, [rec EXCEPT !.pc = "cb_txread",
                               !.pendingStatus = pending_bookings[rec.txn].status,
                               !.pendingData = DataOf(pending_bookings[rec.txn])])
    /\ UNCHANGED <<stores, clinic_control, gateway, gw_refunds, requestsLeft, faultsLeft,
                   phonepe_env, today, cleanup,
                   handled>>

\* transaction.get(docRef) and the capacity check on what it read
CbTxRead(h) ==
    LET rec == hs[h]
        docId == TxDocId(rec.pendingData)
        snap == appointment_bookings[docId] IN
    /\ rec.pc = "cb_txread"
    /\ IF SlotsFull(snap)
       THEN Set(h, AfterConfirm(rec, "No slots available for this date"))
       ELSE Set(h, [rec EXCEPT !.pc = "cb_txcommit", !.snap = snap])
    /\ UNCHANGED <<stores, clinic_control, gateway, gw_refunds, requestsLeft, faultsLeft,
                   phonepe_env, today, cleanup,
                   handled>>

\* A store that runs the transaction function again without limit.
AttemptsExhausted_Never(attempts) == FALSE

\* db.runTransaction gives up after MaxAttempts attempts (no maxAttempts
\* option is passed, so the limit is the store's default).
AttemptsExhausted(attempts) == attempts + 1 >= MaxAttempts

\* transaction.set(docRef, {bookings}) and the commit; a conflicting commit
\* in between makes the store run the function again, MaxAttempts times at most
CbTxCommit(h) ==
    LET rec == hs[h]
        docId == TxDocId(rec.pendingData)
        slotNumber == NextSlotNumber(rec.snap)
        newBooking == NewBooking(rec.txn, rec.pendingData, slotNumber) IN
    /\ rec.pc = "cb_txcommit"
    /\ IF TxUnchanged(appointment_bookings[docId], rec.snap)
       THEN /\ appointment_bookings' =
                  [appointment_bookings EXCEPT
                      ![docId] = DateDoc(Append(rec.snap.bookings, newBooking))]
            /\ Set(h, [rec EXCEPT !.pc = "cb_update", !.slot = slotNumber,
                                  !.snap = NoDoc, !.attempts = 0])
       ELSE /\ UNCHANGED appointment_bookings
            /\ IF AttemptsExhausted(rec.attempts)
               THEN Set(h, AfterConfirm(rec, "Failed to confirm booking"))
               ELSE Set(h, [rec EXCEPT !.pc = "cb_txread", !.snap = NoDoc,
                                       !.attempts = rec.attempts + 1])
    /\ UNCHANGED <<pending_bookings, refunds, failed_refunds, webhook_logs,
                   clinic_control, gateway, gw_refunds, requestsLeft, faultsLeft,
                   phonepe_env, today, cleanup,
                   handled>>

\* pendingBookingRef.update({status: 'completed', ...}); update() rejects when
\* the document is gone, and the catch answers 'Failed to confirm booking'
CbUpdate(h) ==
    LET rec == hs[h] IN
    /\ rec.pc = "cb_update"
    /\ \E ok \in StoreOutcomes :
        /\ Fault(ok)
        /\ IF ok /\ pending_bookings[rec.txn].exists
           THEN /\ pending_bookings' =
                      [pending_bookings EXCEPT
                          ![rec.txn].status = "completed",
                          ![rec.txn].slotNumber = rec.slot]
                /\ Set(h, AfterConfirm(rec, "success"))
           ELSE /\ UNCHANGED pending_bookings
                /\ Set(h, AfterConfirm(rec, "Failed to confirm booking"))
    /\ UNCHANGED <<appointment_bookings, refunds, failed_refunds, webhook_logs,
                   clinic_control, gateway, gw_refunds, requestsLeft, phonepe_env,
                   today, cleanup, handled>>

\* A cancellation that also takes the order's bookings out of the date documents.
cancelBooking_RemovesConfirmed(o, ok) ==
    /\ IF ok /\ pending_bookings[o].exists
       THEN pending_bookings' = [pending_bookings EXCEPT ![o].status = "failed",
                                                         ![o].failedAt = today]
       ELSE UNCHANGED pending_bookings
    /\ appointment_bookings' =
           [docId \in DocIds |->
               IF appointment_bookings[docId].exists
               THEN DateDoc(SelectSeq(appointment_bookings[docId].bookings,
                                      LAMBDA b : b.orderId # o))
               ELSE appointment_bookings[docId]]

\* A cancellation that writes with set(..., {merge: true}): it creates the
\* document when there is none.
cancelBooking_Creates(o, ok) ==
    /\ IF ok
       THEN pending_bookings' =
                [pending_bookings EXCEPT
                    ![o] = [@ EXCEPT !.exists = TRUE, !.status = "failed",
                                     !.failedAt = today]]
       ELSE UNCHANGED pending_bookings
    /\ UNCHANGED appointment_bookings

\* cancelBooking: update({status: 'failed', failedAt: serverTimestamp()}) on
\* the pending booking and nothing else; update() rejects when the document
\* is absent, and a rejected update is caught
cancelBooking(o, ok) ==
    /\ IF ok /\ pending_bookings[o].exists
       THEN pending_bookings' = [pending_bookings EXCEPT ![o].status = "failed",
                                                         ![o].failedAt = today]
       ELSE UNCHANGED pending_bookings
    /\ UNCHANGED appointment_bookings

-----------------------------------------------------------------------------
(* GET /status-by-transaction/:transactionId *)

\* The request arrives; the handler reads the pending booking and then asks
\* the gateway: checkPaymentStatus(transactionId) answers the gateway's state
\* of the order, or fails.  (The gateway's state of an order does not change
\* here, so the two awaits are one step.)
StartPoll(h, o) ==
    LET rec == [Idle EXCEPT !.kind = "poll", !.txn = o] IN
    /\ Free(h)
    /\ requestsLeft' = requestsLeft - 1
    /\ IF ~pending_bookings[o].exists
       THEN Set(h, Done(rec, "Transaction not found"))
       ELSE \E paymentStatus \in {"ERROR", gateway[o]} :
              LET got == [rec EXCEPT !.hadPending = TRUE] IN
              Set(h, CASE paymentStatus = "ERROR" ->
                            Done(got, "Failed to check payment status")
                       [] paymentStatus = "SUCCESS" ->
                            [got EXCEPT !.pc = "p_clinic", !.signal = "SUCCESS"]
                       [] paymentStatus = "FAILED" ->
                            [got EXCEPT !.pc = "p_cancel", !.signal = "FAILED"]
                       [] OTHER -> Done(got, "PENDING"))
    /\ UNCHANGED <<stores, clinic_control, gateway, gw_refunds, faultsLeft,
                   phonepe_env, today, cleanup,
                   handled>>

\* A poll that goes on to confirmBooking whatever isClinicOpen answered.
PollBranch_AlwaysConfirm(isOpen) == "cb_get"

\* Which branch the poll takes on the answer of isClinicOpen.
PollBranch(isOpen) == IF isOpen THEN "cb_get" ELSE "p_refund"

\* const clinicStatus = await isClinicOpen()
PollClinic(h) ==
    LET rec == hs[h] IN
    /\ rec.pc = "p_clinic"
    /\ \E ok \in StoreOutcomes :
        LET isOpen == isClinicOpen(clinic_control, today, ok) IN
        /\ Fault(ok)
        /\ Set(h, [rec EXCEPT !.pc = PollBranch(isOpen),
                              !.clinicStatus = IF isOpen THEN "open" ELSE "closed",
                              !.closedAtSignal = ~isOpen])
    /\ UNCHANGED <<stores, clinic_control, gateway, gw_refunds, requestsLeft, phonepe_env,
                   today, cleanup, handled>>

\* initiateRefund(transactionId, amount, reason): the gateway accepts the
\* refund, or the call fails and initiateRefund answers success: false
PollRefund(h) ==
    LET rec == hs[h] IN
    /\ rec.pc = "p_refund"
    /\ \E accepted \in BOOLEAN :
        IF accepted
        THEN /\ gw_refunds' = [gw_refunds EXCEPT ![rec.txn] = @ + 1]
             /\ Set(h, [rec EXCEPT !.pc = "p_refrec", !.refundTried = TRUE,
                                   !.refundId = gw_refunds[rec.txn] + 1])
        ELSE /\ UNCHANGED gw_refunds
             /\ Set(h, [rec EXCEPT !.pc = "p_failrec", !.refundTried = TRUE])
    /\ UNCHANGED <<stores, clinic_control, gateway, requestsLeft, faultsLeft, phonepe_env,
                   today, cleanup, handled>>

\* createRefundRecord: refunds/<refundId>.set(...), status 'initiated'; it
\* catches a failed write and its result is not looked at
createRefundRecord(refundId, originalTransactionId, ok) ==
    IF ok
    THEN refunds' = refunds \cup
             {[refundId |-> <<originalTransactionId, refundId>>,
               originalTransactionId |-> originalTransactionId,
               status |-> "initiated"]}
    ELSE UNCHANGED refunds

PollRefundRecord(h) ==
    LET rec == hs[h] IN
    /\ rec.pc = "p_refrec"
    /\ \E ok \in StoreOutcomes :
        /\ Fault(ok)
        /\ createRefundRecord(rec.refundId, rec.txn, ok)
    /\ Set(h, [rec EXCEPT !.pc = "p_refdel"])
    /\ UNCHANGED <<pending_bookings, appointment_bookings, failed_refunds,
                   webhook_logs, clinic_control, gateway, gw_refunds, requestsLeft,
                   phonepe_env, today, cleanup,
                   handled>>

\* pending_bookings/<transactionId>.delete(), then the REFUNDED answer; a
\* delete that throws lands in the catch (REFUND_ERROR)
PollRefundDelete(h) ==
    LET rec == hs[h] IN
    /\ rec.pc = "p_refdel"
    /\ \E ok \in StoreOutcomes :
        /\ Fault(ok)
        /\ IF ok
           THEN /\ pending_bookings' = [pending_bookings EXCEPT ![rec.txn] = NoPending]
                /\ Set(h, Done(rec, "REFUNDED"))
           ELSE /\ UNCHANGED pending_bookings
                /\ Set(h, Done(rec, "REFUND_ERROR"))
    /\ UNCHANGED <<appointment_bookings, refunds, failed_refunds, webhook_logs,
                   clinic_control, gateway, gw_refunds, requestsLeft, phonepe_env,
                   today, cleanup, handled>>

\* failed_refunds/<transactionId>.set({..., status: 'manual_required'}), then
\* the REFUND_PENDING answer; a set that throws lands in the catch
PollFailedRefund(h) ==
    LET rec == hs[h] IN
    /\ rec.pc = "p_failrec"
    /\ \E ok \in StoreOutcomes :
        /\ Fault(ok)
        /\ IF ok
           THEN /\ failed_refunds' = failed_refunds \cup {rec.txn}
                /\ Set(h, Done(rec, "REFUND_PENDING"))
           ELSE /\ UNCHANGED failed_refunds
                /\ Set(h, Done(rec, "REFUND_ERROR"))
    /\ UNCHANGED <<pending_bookings, appointment_bookings, refunds, webhook_logs,
                   clinic_control, gateway, gw_refunds, requestsLeft, phonepe_env,
                   today, cleanup, handled>>

\* After a successful confirmBooking: delete the pending booking (a failure is
\* logged only) and answer SUCCESS
PollDelete(h) ==
    LET rec == hs[h] IN
    /\ rec.pc = "p_delete"
    /\ \E ok \in StoreOutcomes :
        /\ Fault(ok)
        /\ IF ok
           THEN pending_bookings' = [pending_bookings EXCEPT ![rec.txn] = NoPending]
           ELSE UNCHANGED pending_bookings
    /\ Set(h, Done(rec, "SUCCESS"))
    /\ UNCHANGED <<appointment_bookings, refunds, failed_refunds, webhook_logs,
                   clinic_control, gateway, gw_refunds, requestsLeft, phonepe_env,
                   today, cleanup, handled>>

\* paymentStatus === 'FAILED': await cancelBooking(transactionId)
PollCancel(h) ==
    LET rec == hs[h] IN
    /\ rec.pc = "p_cancel"
    /\ \E ok \in StoreOutcomes :
        /\ Fault(ok)
        /\ cancelBooking(rec.txn, ok)
    /\ Set(h, Done(rec, "FAILED"))
    /\ UNCHANGED <<refunds, failed_refunds, webhook_logs,
                   clinic_control, gateway, gw_refunds, requestsLeft, phonepe_env,
                   today, cleanup, handled>>

-----------------------------------------------------------------------------
(* POST /webhook *)

\* A duplicate query that only counts logs already marked processed.
DuplicateWebhook_ProcessedOnly(logs, transactionId, eventType) ==
    \E l \in logs : /\ l.transactionId = transactionId /\ l.eventType = eventType
                    /\ l.processed

\* existingWebhookQuery: a log with this transactionId and eventType exists
DuplicateWebhook(logs, transactionId, eventType) ==
    \E l \in logs : l.transactionId = transactionId /\ l.eventType = eventType

\* The auto-generated id of a new log document: the logs of one transaction
\* and event are numbered in the order they are added.
NewLogId(logs, transactionId, eventType) ==
    1 + Cardinality({l \in logs : /\ l.transactionId = transactionId
                                  /\ l.eventType = eventType})

\* webhookLogRef of a handler points at log l
IsLogOf(l, rec) ==
    l.transactionId = rec.txn /\ l.eventType = rec.ev /\ l.id = rec.logId

\* The payload is acted on when the SDK validated it, or when validation threw
\* and PHONEPE_ENV is SANDBOX; otherwise the answer is 401.
WebhookAccepted(valid, phonepeEnv) == valid \/ phonepeEnv = "SANDBOX"

\* What the gateway sends validates, and tells the state the order is in; a
\* payload that does not validate can say anything.
Sendable(o, ev, valid) ==
    valid => /\ ev \in SuccessEvents => gateway[o] = "SUCCESS"
             /\ ev \in FailureEvents => gateway[o] = "FAILED"
             /\ ev \in RefundEvents => gw_refunds[o] > 0

\* The request arrives: validation, with probability 1/100 the un-awaited
\* cleanupOldWebhookLogs() (sweep), then the duplicate query.
StartWebhook(h, o, ev, valid, sweep) ==
    LET rec == [Idle EXCEPT !.kind = "webhook", !.txn = o, !.ev = ev,
                            !.validated = valid] IN
    /\ Free(h)
    /\ Sendable(o, ev, valid)
    /\ requestsLeft' = requestsLeft - 1
    /\ IF ~WebhookAccepted(valid, phonepe_env)
       THEN /\ Set(h, Done(rec, "401"))
            /\ UNCHANGED cleanup
       ELSE /\ cleanup' = IF sweep /\ cleanup.pc = "idle"
                          THEN [pc |-> "query", batch |-> {}]
                          ELSE cleanup
            /\ IF DuplicateWebhook(webhook_logs, o, ev)
               THEN Set(h, Done(rec, "Webhook already processed"))
               ELSE Set(h, [rec EXCEPT !.pc = "w_log"])
    /\ UNCHANGED <<stores, clinic_control, gateway, gw_refunds, faultsLeft,
                   phonepe_env, today, handled>>

\* webhook_logs.add({..., processed: false}), then the dispatch on the event
WhLog(h) ==
    LET rec == [hs[h] EXCEPT !.validated = FALSE] IN
    /\ rec.pc = "w_log"
    /\ \E ok \in StoreOutcomes :
        /\ Fault(ok)
        /\ IF ok
           THEN /\ webhook_logs' = webhook_logs \cup
                      {[id |-> NewLogId(webhook_logs, rec.txn, rec.ev),
                        transactionId |-> rec.txn, eventType |-> rec.ev,
                        processed |-> FALSE, old |-> FALSE]}
                /\ Set(h, [rec EXCEPT
                             !.logId = NewLogId(webhook_logs, rec.txn, rec.ev),
                             !.pc = CASE rec.ev \in SuccessEvents -> "hs_get"
                                      [] rec.ev \in FailureEvents -> "hf_cancel"
                                      [] OTHER -> "hr_query",
                             !.signal = CASE rec.ev \in SuccessEvents -> "SUCCESS"
                                          [] rec.ev \in FailureEvents -> "FAILED"
                                          [] OTHER -> "REFUND"])
           ELSE /\ UNCHANGED webhook_logs
                /\ Set(h, Done(rec, "500"))
    /\ UNCHANGED <<pending_bookings, appointment_bookings, refunds, failed_refunds,
                   clinic_control, gateway, gw_refunds, requestsLeft, phonepe_env,
                   today, cleanup, handled>>

\* handlePaymentSuccess: read the pending booking; return when it is absent
\* or already completed, else confirm
HsGet(h) ==
    LET rec == hs[h]
        pendingData == pending_bookings[rec.txn] IN
    /\ rec.pc = "hs_get"
    /\ IF ~pendingData.exists
       THEN Set(h, [rec EXCEPT !.pc = "w_mark"])
       ELSE IF pendingData.status = "completed"
       THEN Set(h, [rec EXCEPT !.pc = "w_mark", !.hadPending = TRUE])
       ELSE Set(h, [rec EXCEPT !.pc = "cb_get", !.hadPending = TRUE,
                               !.closedAtSignal = ~ClinicOpenNow])
    /\ UNCHANGED <<stores, clinic_control, gateway, gw_refunds, requestsLeft, faultsLeft,
                   phonepe_env, today, cleanup,
                   handled>>

\* handlePaymentSuccess: pendingBookingRef.delete() after a successful confirm
HsDelete(h) ==
    LET rec == hs[h] IN
    /\ rec.pc = "hs_delete"
    /\ \E ok \in StoreOutcomes :
        /\ Fault(ok)
        /\ IF ok
           THEN pending_bookings' = [pending_bookings EXCEPT ![rec.txn] = NoPending]
           ELSE UNCHANGED pending_bookings
    /\ Set(h, [rec EXCEPT !.pc = "w_mark"])
    /\ UNCHANGED <<appointment_bookings, refunds, failed_refunds, webhook_logs,
                   clinic_control, gateway, gw_refunds, requestsLeft, phonepe_env,
                   today, cleanup, handled>>

\* handlePaymentFailure: await cancelBooking(transactionId)
HfCancel(h) ==
    LET rec == hs[h] IN
    /\ rec.pc = "hf_cancel"
    /\ \E ok \in StoreOutcomes :
        /\ Fault(ok)
        /\ cancelBooking(rec.txn, ok)
    /\ Set(h, [rec EXCEPT !.pc = "w_mark"])
    /\ UNCHANGED <<refunds, failed_refunds, webhook_logs,
                   clinic_control, gateway, gw_refunds, requestsLeft, phonepe_env,
                   today, cleanup, handled>>

\* The status handleRefundCompleted / handleRefundFailed writes for an event.
RefundStatusOf(ev) == IF ev = "PG_REFUND_COMPLETED" THEN "completed" ELSE "failed"

\* refundQuery.docs[0]: the first refund record of the transaction.
FirstRefundOf(transactionId) ==
    CHOOSE r \in refunds :
        /\ r.originalTransactionId = transactionId
        /\ \A q \in refunds : q.originalTransactionId = transactionId
                                 => r.refundId[2] <= q.refundId[2]

\* refunds/<refundId>.update({status, ...}): rejects when the document is
\* absent or the store fails, else overwrites the status.
WriteRefundStatus(refundId, status, ok) ==
    IF ok /\ \E r \in refunds : r.refundId = refundId
    THEN refunds' = {IF r.refundId = refundId THEN [r EXCEPT !.status = status]
                     ELSE r : r \in refunds}
    ELSE UNCHANGED refunds

\* handleRefundCompleted / handleRefundFailed:
\* refunds.where('originalTransactionId', '==', transactionId).get()
HrQuery(h) ==
    LET rec == hs[h] IN
    /\ rec.pc = "hr_query"
    /\ \E ok \in StoreOutcomes :
        /\ Fault(ok)
        /\ IF ok /\ \E r \in refunds : r.originalTransactionId = rec.txn
           THEN Set(h, [rec EXCEPT !.pc = "hr_update",
                                   !.refundId = FirstRefundOf(rec.txn).refundId[2]])
           ELSE Set(h, [rec EXCEPT !.pc = "w_mark"])
    /\ UNCHANGED <<stores, clinic_control, gateway, gw_refunds, requestsLeft,
                   phonepe_env, today, cleanup, handled>>

\* refundDoc.ref.update({status: 'completed' | 'failed', ...}); an update that
\* throws is caught and logged by the handler
HrUpdate(h) ==
    LET rec == hs[h] IN
    /\ rec.pc = "hr_update"
    /\ \E ok \in StoreOutcomes :
        /\ Fault(ok)
        /\ WriteRefundStatus(<<rec.txn, rec.refundId>>, RefundStatusOf(rec.ev), ok)
    /\ Set(h, [rec EXCEPT !.pc = "w_mark"])
    /\ UNCHANGED <<pending_bookings, appointment_bookings, failed_refunds,
                   webhook_logs, clinic_control, gateway, gw_refunds, requestsLeft,
                   phonepe_env, today, cleanup, handled>>

\* refundService.updateRefundStatus(refundId, status), called on its own
updateRefundStatus(refundId, status) ==
    /\ requestsLeft > 0
    /\ requestsLeft' = requestsLeft - 1
    /\ \E ok \in StoreOutcomes :
        /\ Fault(ok)
        /\ WriteRefundStatus(refundId, status, ok)
    /\ UNCHANGED <<pending_bookings, appointment_bookings, failed_refunds,
                   webhook_logs, clinic_control, gateway, gw_refunds, hs,
                   phonepe_env, today, cleanup, handled>>

\* webhookLogRef.update({processed: true}), then 200; an update that throws
\* lands in the catch (500)
WhMark(h) ==
    LET rec == hs[h] IN
    /\ rec.pc = "w_mark"
    /\ \E ok \in StoreOutcomes :
        /\ Fault(ok)
        /\ IF ok /\ \E l \in webhook_logs : IsLogOf(l, rec)
           THEN /\ webhook_logs' =
                      {IF IsLogOf(l, rec)
                       THEN [l EXCEPT !.processed = TRUE] ELSE l :
                          l \in webhook_logs}
                /\ handled' = handled \cup {<<rec.txn, rec.ev>>}
                /\ Set(h, Done(rec, "Webhook processed successfully"))
           ELSE /\ UNCHANGED <<webhook_logs, handled>>
                /\ Set(h, Done(rec, "500"))
    /\ UNCHANGED <<pending_bookings, appointment_bookings, refunds, failed_refunds,
                   clinic_control, gateway, gw_refunds, requestsLeft, phonepe_env,
                   today, cleanup>>

\* The answer is sent and the handler is free again.
Return(h) ==
    /\ hs[h].pc = "done"
    /\ Set(h, Idle)
    /\ UNCHANGED <<stores, clinic_control, gateway, gw_refunds, requestsLeft, faultsLeft,
                   phonepe_env, today, cleanup,
                   handled>>

-----------------------------------------------------------------------------
(* cleanupOldWebhookLogs, and the passing of time *)

RetentionDays == 30   \* thirtyDaysAgo.setDate(thirtyDaysAgo.getDate() - 30)

\* webhook_logs.where('timestamp', '<', thirtyDaysAgo).limit(50).get()
CleanupQuery ==
    /\ cleanup.pc = "query"
    /\ LET oldLogs == {l \in webhook_logs : l.old} IN
       cleanup' = IF oldLogs = {} THEN NoCleanup
                  ELSE [pc |-> "commit", batch |-> oldLogs]
    /\ UNCHANGED <<stores, clinic_control, gateway, gw_refunds, hs, requestsLeft,
                   faultsLeft, phonepe_env, today, handled>>

\* batch.delete(doc.ref) for each log of the query, batch.commit()
CleanupCommit ==
    /\ cleanup.pc = "commit"
    /\ webhook_logs' = {l \in webhook_logs :
                           \A b \in cleanup.batch :
                               <<b.transactionId, b.eventType, b.id>> #
                               <<l.transactionId, l.eventType, l.id>>}
    /\ cleanup' = NoCleanup
    /\ UNCHANGED <<pending_bookings, appointment_bookings, refunds, failed_refunds,
                   clinic_control, gateway, gw_refunds, hs, requestsLeft, faultsLeft,
                   phonepe_env, today, handled>>

\* More than the retention period passes with no request in flight: every
\* log now has a timestamp older than thirtyDaysAgo.
AgeLogs ==
    /\ \A h \in Handlers : hs[h].pc = "idle"
    /\ cleanup.pc = "idle"
    /\ \E l \in webhook_logs : ~l.old
    /\ webhook_logs' = {[l EXCEPT !.old = TRUE] : l \in webhook_logs}
    /\ today' = today + RetentionDays + 1
    /\ UNCHANGED <<pending_bookings, appointment_bookings, refunds, failed_refunds,
                   clinic_control, gateway, gw_refunds, hs, requestsLeft, faultsLeft,
                   phonepe_env, cleanup, handled>>

-----------------------------------------------------------------------------
(* POST /create-order *)

Price == 400          \* if (amount !== 400)
CutoffHour == 19      \* if (isToday && currentHour >= 19)

\* /^[6-9]\d{9}$/ on the digits of the phone number
PhoneOk(phone) ==
    /\ Len(phone) = 10
    /\ phone[1] \in 6..9
    /\ \A i \in 1..Len(phone) : phone[i] \in 0..9

\* selectedDate.getDay(), 0 for Sunday; the dates of the model are days of
\* June 2025, whose first day is a Sunday.
GetDay(date) == (date[3] - 1) % 7

\* selectedDate and now have the same date, month and year.
IsToday(date, day) == date = <<DateA[1], DateA[2], day>>

\* The first two checks in the other order: the amount before the fields.
ValidationError_AmountFirst(req, day, currentHour) ==
    CASE req.amount # Price -> "Invalid amount"
      [] ~req.fields -> "Missing required fields"
      [] ~PhoneOk(req.phone) -> "Invalid phone number"
      [] GetDay(req.date) = 0 -> "Clinic is closed on Sundays"
      [] IsToday(req.date, day) /\ currentHour >= CutoffHour ->
             "Bookings for today are closed after 7 PM"
      [] OTHER -> "none"

\* A cutoff one hour late: > where the code has >=.
ValidationError_LateCutoff(req, day, currentHour) ==
    CASE ~req.fields -> "Missing required fields"
      [] req.amount # Price -> "Invalid amount"
      [] ~PhoneOk(req.phone) -> "Invalid phone number"
      [] GetDay(req.date) = 0 -> "Clinic is closed on Sundays"
      [] IsToday(req.date, day) /\ currentHour > CutoffHour ->
             "Bookings for today are closed after 7 PM"
      [] OTHER -> "none"

\* The checks made before the first await, in the order of the code: the error
\* of the first one that fails, "none" when all pass.
ValidationError(req, day, currentHour) ==
    CASE ~req.fields -> "Missing required fields"
      [] req.amount # Price -> "Invalid amount"
      [] ~PhoneOk(req.phone) -> "Invalid phone number"
      [] GetDay(req.date) = 0 -> "Clinic is closed on Sundays"
      [] IsToday(req.date, day) /\ currentHour >= CutoffHour ->
             "Bookings for today are closed after 7 PM"
      [] OTHER -> "none"

\* The request arrives and is validated.
StartOrder(h, req, currentHour) ==
    LET rec == [Idle EXCEPT !.kind = "order", !.req = req, !.hour = currentHour]
        error == ValidationError(req, today, currentHour) IN
    /\ Free(h)
    /\ requestsLeft' = requestsLeft - 1
    /\ IF error # "none"
       THEN Set(h, Done(rec, error))
       ELSE Set(h, [rec EXCEPT !.pc = "o_sweep"])
    /\ UNCHANGED <<stores, clinic_control, gateway, gw_refunds, faultsLeft,
                   phonepe_env, today, cleanup, handled>>

\* A sweep whose query has no condition on createdAt.
OldPendingBookings_All == {o \in Orders : pending_bookings[o].exists}

\* pending_bookings.where('createdAt', '<', oneDayAgo): the pending bookings
\* created more than 24 hours ago, whatever their status
OldPendingBookings ==
    {o \in Orders : pending_bookings[o].exists /\ pending_bookings[o].old}

\* cleanupOldPendingBookings: pending_bookings.where('createdAt', '<',
\* oneDayAgo).get(); nothing found, or a query that throws, ends the cleanup
OrderSweepQuery(h) ==
    LET rec == hs[h] IN
    /\ rec.pc = "o_sweep"
    /\ \E ok \in StoreOutcomes :
        /\ Fault(ok)
        /\ IF ok /\ OldPendingBookings # {}
           THEN Set(h, [rec EXCEPT !.pc = "o_sweepcommit"])
           ELSE Set(h, [rec EXCEPT !.pc = "o_clinic"])
    /\ UNCHANGED <<stores, clinic_control, gateway, gw_refunds, requestsLeft,
                   phonepe_env, today, cleanup, handled>>

\* batch.delete(doc.ref) for each document of the query, batch.commit()
OrderSweepCommit(h) ==
    LET rec == hs[h]
        batch == OldPendingBookings IN
    /\ rec.pc = "o_sweepcommit"
    /\ \E ok \in StoreOutcomes :
        /\ Fault(ok)
        /\ IF ok
           THEN /\ pending_bookings' =
                      [o \in Orders |-> IF o \in batch THEN NoPending
                                        ELSE pending_bookings[o]]
                /\ Set(h, [rec EXCEPT !.pc = "o_clinic",
                                      !.deleted = batch # {}])
           ELSE /\ UNCHANGED pending_bookings
                /\ Set(h, [rec EXCEPT !.pc = "o_clinic"])
    /\ UNCHANGED <<appointment_bookings, refunds, failed_refunds, webhook_logs,
                   clinic_control, gateway, gw_refunds, requestsLeft, phonepe_env,
                   today, cleanup, handled>>

\* const clinicStatus = await isClinicOpen(); 400 CLINIC_CLOSED when closed
OrderClinic(h) ==
    LET rec == hs[h] IN
    /\ rec.pc = "o_clinic"
    /\ \E ok \in StoreOutcomes :
        /\ Fault(ok)
        /\ IF isClinicOpen(clinic_control, today, ok)
           THEN Set(h, [rec EXCEPT !.pc = "o_slots", !.clinicStatus = "open"])
           ELSE Set(h, Done([rec EXCEPT !.clinicStatus = "closed"],
                            "CLINIC_CLOSED"))
    /\ UNCHANGED <<stores, clinic_control, gateway, gw_refunds, requestsLeft,
                   phonepe_env, today, cleanup, handled>>

\* docRef.get() and the pre-check of the number of bookings; a read that
\* throws lands in the catch (500)
OrderSlots(h) ==
    LET rec == hs[h]
        snap == appointment_bookings[formatDateToDocId(rec.req.date)] IN
    /\ rec.pc = "o_slots"
    /\ \E ok \in StoreOutcomes :
        /\ Fault(ok)
        /\ IF ~ok THEN Set(h, Done(rec, "Internal server error"))
           ELSE IF snap.exists /\ Len(snap.bookings) >= Capacity
           THEN Set(h, Done([rec EXCEPT !.snap = snap],
                            "No slots available for this date"))
           ELSE Set(h, [rec EXCEPT !.pc = "o_gateway", !.snap = snap])
    /\ UNCHANGED <<stores, clinic_control, gateway, gw_refunds, requestsLeft,
                   phonepe_env, today, cleanup, handled>>

\* The order ids the gateway has not seen yet.
FreeOrders == {o \in Orders : gateway[o] = "NONE"}

\* createPaymentOrder: phonePeClient.pay(payRequest) under a fresh
\* merchantTransactionId; a failure is answered 500
OrderGateway(h) ==
    LET rec == hs[h] IN
    /\ rec.pc = "o_gateway"
    /\ \E accepted \in BOOLEAN :
        IF accepted /\ FreeOrders # {}
        THEN LET o == CHOOSE x \in FreeOrders : TRUE IN
             /\ gateway' = [gateway EXCEPT ![o] = "PENDING"]
             /\ Set(h, [rec EXCEPT !.pc = "o_pending", !.txn = o])
        ELSE /\ UNCHANGED gateway
             /\ Set(h, Done(rec, "Failed to create order"))
    /\ UNCHANGED <<stores, clinic_control, gw_refunds, requestsLeft, faultsLeft,
                   phonepe_env, today, cleanup, handled>>

\* createPendingBooking(orderId, bookingData): pending_bookings/<orderId>.set
createPendingBooking(orderId, bookingData, ok) ==
    IF ok
    THEN pending_bookings' =
             [pending_bookings EXCEPT
                 ![orderId] = [PendingDoc(orderId) EXCEPT !.date = bookingData.date]]
    ELSE UNCHANGED pending_bookings

\* await createPendingBooking(...), then the answer with the redirect URL
OrderPending(h) ==
    LET rec == hs[h] IN
    /\ rec.pc = "o_pending"
    /\ \E ok \in StoreOutcomes :
        /\ Fault(ok)
        /\ createPendingBooking(rec.txn, rec.req, ok)
        /\ Set(h, Done(rec, IF ok THEN "order created"
                            ELSE "Failed to create pending booking"))
    /\ UNCHANGED <<appointment_bookings, refunds, failed_refunds, webhook_logs,
                   clinic_control, gateway, gw_refunds, requestsLeft, phonepe_env,
                   today, cleanup, handled>>

-----------------------------------------------------------------------------
(* Administrative actions on ClinicControl *)

ClosedFromInputs == {2}
ClosedTillInputs == {4}

\* POST /control-clinic: closedFrom required; closedTill, when given, not
\* before closedFrom; then clinic_control/status.set(...)
ControlClinic(closedFrom, closedTill) ==
    /\ Defined(closedFrom)
    /\ ~(Defined(closedTill) /\ closedFrom > closedTill)
    /\ clinic_control' = [exists |-> TRUE, isManuallyOverridden |-> TRUE,
                          closedFrom |-> closedFrom, closedTill |-> closedTill]
    /\ clinic_control' # clinic_control
    /\ UNCHANGED <<stores, gateway, gw_refunds, hs, requestsLeft, faultsLeft,
                   phonepe_env, today, cleanup,
                   handled>>

\* POST /turn-on-clinic: clinic_control/status.set({isManuallyOverridden: false})
TurnOnClinic ==
    /\ clinic_control' = [exists |-> TRUE, isManuallyOverridden |-> FALSE,
                          closedFrom |-> 0, closedTill |-> 0]
    /\ clinic_control' # clinic_control
    /\ UNCHANGED <<stores, gateway, gw_refunds, hs, requestsLeft, faultsLeft,
                   phonepe_env, today, cleanup,
                   handled>>

\* A control-clinic that accepts a closedTill before closedFrom.
ControlError_NoOrderCheck(closedFrom, closedTill) ==
    IF ~Defined(closedFrom) THEN "closedFrom date is required" ELSE "none"

\* The validation of req.body by POST /control-clinic (both dates have the
\* format YYYY-MM-DD, compared as strings)
ControlError(closedFrom, closedTill) ==
    IF ~Defined(closedFrom) THEN "closedFrom date is required"
    ELSE IF Defined(closedTill) /\ closedFrom > closedTill
    THEN "closedTill must be after closedFrom"
    ELSE "none"

\* POST /control-clinic as a request: the admin check, the validation, then
\* clinic_control/status.set(controlData); a set that throws is answered 500
PostControlClinic(h, isAdmin, closedFrom, closedTill) ==
    LET rec == [Idle EXCEPT !.kind = "control-clinic", !.closedFrom = closedFrom,
                            !.closedTill = closedTill]
        error == ControlError(closedFrom, closedTill) IN
    /\ Free(h)
    /\ requestsLeft' = requestsLeft - 1
    /\ \E ok \in StoreOutcomes :
        IF ~isAdmin
        THEN /\ ok
             /\ Set(h, Done(rec, "Admin access required"))
             /\ UNCHANGED <<clinic_control, faultsLeft>>
        ELSE IF error # "none"
        THEN /\ ok
             /\ Set(h, Done(rec, error))
             /\ UNCHANGED <<clinic_control, faultsLeft>>
        ELSE /\ Fault(ok)
             /\ IF ok
                THEN /\ clinic_control' =
                            [exists |-> TRUE, isManuallyOverridden |-> TRUE,
                             closedFrom |-> closedFrom, closedTill |-> closedTill]
                     /\ Set(h, Done(rec, "Clinic control updated successfully"))
                ELSE /\ UNCHANGED clinic_control
                     /\ Set(h, Done(rec, "500"))
    /\ UNCHANGED <<stores, gateway, gw_refunds, phonepe_env, today, cleanup,
                   handled>>

\* POST /turn-on-clinic as a request: the admin check, then
\* clinic_control/status.set({isManuallyOverridden: false, ...})
PostTurnOnClinic(h, isAdmin) ==
    LET rec == [Idle EXCEPT !.kind = "turn-on-clinic"] IN
    /\ Free(h)
    /\ requestsLeft' = requestsLeft - 1
    /\ \E ok \in StoreOutcomes :
        IF ~isAdmin
        THEN /\ ok
             /\ Set(h, Done(rec, "Admin access required"))
             /\ UNCHANGED <<clinic_control, faultsLeft>>
        ELSE /\ Fault(ok)
             /\ IF ok
                THEN /\ clinic_control' =
                            [exists |-> TRUE, isManuallyOverridden |-> FALSE,
                             closedFrom |-> 0, closedTill |-> 0]
                     /\ Set(h, Done(rec, "Clinic bookings turned on successfully"))
                ELSE /\ UNCHANGED clinic_control
                     /\ Set(h, Done(rec, "500"))
    /\ UNCHANGED <<stores, gateway, gw_refunds, phonepe_env, today, cleanup,
                   handled>>

-----------------------------------------------------------------------------
(* The reconciliation workflow: polls, webhooks and the administrator *)

Next ==
    \/ \E h \in Handlers, o \in Orders : StartPoll(h, o)
    \/ \E h \in Handlers, o \in Orders, ev \in Events, valid \in BOOLEAN :
           StartWebhook(h, o, ev, valid, FALSE)
    \/ \E h \in Handlers : PollClinic(h)
    \/ \E h \in Handlers : PollRefund(h)
    \/ \E h \in Handlers : PollRefundRecord(h)
    \/ \E h \in Handlers : PollRefundDelete(h)
    \/ \E h \in Handlers : PollFailedRefund(h)
    \/ \E h \in Handlers : PollDelete(h)
    \/ \E h \in Handlers : PollCancel(h)
    \/ \E h \in Handlers : CbGet(h)
    \/ \E h \in Handlers : CbTxRead(h)
    \/ \E h \in Handlers : CbTxCommit(h)
    \/ \E h \in Handlers : CbUpdate(h)
    \/ \E h \in Handlers : WhLog(h)
    \/ \E h \in Handlers : HsGet(h)
    \/ \E h \in Handlers : HsDelete(h)
    \/ \E h \in Handlers : HfCancel(h)
    \/ \E h \in Handlers : WhMark(h)
    \/ \E h \in Handlers : Return(h)
    \/ \E closedFrom \in ClosedFromInputs, closedTill \in ClosedTillInputs :
           ControlClinic(closedFrom, closedTill)

\* No time passes in Spec, so no log is ever old and the log cleanup has
\* nothing to delete: webhooks arrive without starting it.
Spec == Init /\ [][Next]_vars

-----------------------------------------------------------------------------
(* The webhook endpoint over a long time: deliveries, redeliveries, the log
   cleanup and the ageing of the logs *)

MaxDeliveries == 3    \* webhook deliveries in one behaviour

InitWebhook ==
    /\ pending_bookings = [o \in Orders |-> PendingDoc(o)]
    /\ appointment_bookings = [docId \in DocIds |-> Prefilled(0)]
    /\ refunds = {}
    /\ failed_refunds = {}
    /\ webhook_logs = {}
    /\ clinic_control = NoControl
    /\ gateway = PaidAndFailed
    /\ gw_refunds = [o \in Orders |-> 0]
    /\ hs = [h \in Handlers |-> Idle]
    /\ requestsLeft = MaxDeliveries
    /\ faultsLeft = 0
    /\ phonepe_env \in {"SANDBOX", "PRODUCTION"}
    /\ today = 3
    /\ cleanup = NoCleanup
    /\ handled = {}

NextWebhook ==
    \/ \E h \in Handlers, o \in Orders, ev \in Events, valid, sweep \in BOOLEAN :
           StartWebhook(h, o, ev, valid, sweep)
    \/ \E h \in Handlers : WhLog(h)
    \/ \E h \in Handlers : HsGet(h)
    \/ \E h \in Handlers : CbGet(h)
    \/ \E h \in Handlers : CbTxRead(h)
    \/ \E h \in Handlers : CbTxCommit(h)
    \/ \E h \in Handlers : CbUpdate(h)
    \/ \E h \in Handlers : HsDelete(h)
    \/ \E h \in Handlers : HfCancel(h)
    \/ \E h \in Handlers : WhMark(h)
    \/ \E h \in Handlers : Return(h)
    \/ CleanupQuery
    \/ CleanupCommit
    \/ AgeLogs

SpecWebhook == InitWebhook /\ [][NextWebhook]_vars

-----------------------------------------------------------------------------
(* Refund records after an automatic refund: the gateway's refund events and
   direct calls of updateRefundStatus *)

MaxRefundEvents == 3  \* refund events and updateRefundStatus calls in one behaviour

\* The poll of the paid order o1 found the clinic closed: the gateway accepted
\* the refund, the refund record was created and the pending booking deleted.
InitRefund ==
    /\ pending_bookings = [o \in Orders |-> IF o = "o1" THEN NoPending
                                            ELSE PendingDoc(o)]
    /\ appointment_bookings = [docId \in DocIds |-> Prefilled(0)]
    /\ refunds = {[refundId |-> <<"o1", 1>>, originalTransactionId |-> "o1",
                   status |-> "initiated"]}
    /\ failed_refunds = {}
    /\ webhook_logs = {}
    /\ clinic_control = NoControl
    /\ gateway = PaidAndFailed
    /\ gw_refunds = [o \in Orders |-> IF o = "o1" THEN 1 ELSE 0]
    /\ hs = [h \in Handlers |-> Idle]
    /\ requestsLeft = MaxRefundEvents
    /\ faultsLeft \in {0, MaxFaults}
    /\ phonepe_env \in {"SANDBOX", "PRODUCTION"}
    /\ today = 3
    /\ cleanup = NoCleanup
    /\ handled = {}

RefundStatuses == {"completed", "failed"}

NextRefund ==
    \/ \E h \in Handlers, o \in Orders, ev \in RefundEvents, valid \in BOOLEAN :
           StartWebhook(h, o, ev, valid, FALSE)
    \/ \E h \in Handlers : WhLog(h)
    \/ \E h \in Handlers : HrQuery(h)
    \/ \E h \in Handlers : HrUpdate(h)
    \/ \E h \in Handlers : WhMark(h)
    \/ \E h \in Handlers : Return(h)
    \/ \E r \in refunds, status \in RefundStatuses :
           updateRefundStatus(r.refundId, status)

SpecRefund == InitRefund /\ [][NextRefund]_vars

-----------------------------------------------------------------------------
(* The webhook endpoint with a store that can fail: payment events for orders
   that are pending, refund events for an order that was refunded *)

\* Either both orders are pending (the date document absent or full), or the
\* paid order o1 was refunded by a poll that found the clinic closed.
InitAck ==
    /\ \E refunded \in BOOLEAN :
        /\ pending_bookings = [o \in Orders |-> IF o = "o1" /\ refunded
                                                THEN NoPending ELSE PendingDoc(o)]
        /\ refunds = IF refunded
                     THEN {[refundId |-> <<"o1", 1>>, originalTransactionId |-> "o1",
                            status |-> "initiated"]}
                     ELSE {}
        /\ gw_refunds = [o \in Orders |-> IF o = "o1" /\ refunded THEN 1 ELSE 0]
    /\ appointment_bookings \in [DocIds -> {Prefilled(0), Prefilled(Capacity)}]
    /\ failed_refunds = {}
    /\ webhook_logs = {}
    /\ clinic_control = NoControl
    /\ gateway = PaidAndFailed
    /\ hs = [h \in Handlers |-> Idle]
    /\ requestsLeft = MaxRequests
    /\ faultsLeft = MaxFaults
    /\ phonepe_env = "PRODUCTION"
    /\ today = 3
    /\ cleanup = NoCleanup
    /\ handled = {}

NextAck ==
    \/ \E h \in Handlers, o \in Orders, ev \in Events \cup RefundEvents :
           StartWebhook(h, o, ev, TRUE, FALSE)
    \/ \E h \in Handlers : WhLog(h)
    \/ \E h \in Handlers : HsGet(h)
    \/ \E h \in Handlers : CbGet(h)
    \/ \E h \in Handlers : CbTxRead(h)
    \/ \E h \in Handlers : CbTxCommit(h)
    \/ \E h \in Handlers : CbUpdate(h)
    \/ \E h \in Handlers : HsDelete(h)
    \/ \E h \in Handlers : HfCancel(h)
    \/ \E h \in Handlers : HrQuery(h)
    \/ \E h \in Handlers : HrUpdate(h)
    \/ \E h \in Handlers : WhMark(h)
    \/ \E h \in Handlers : Return(h)

SpecAck == InitAck /\ [][NextAck]_vars

-----------------------------------------------------------------------------
(* Failed payments: status polls and failure webhooks for orders whose payment
   failed, repeated over several days *)

\* A day passes on the server clock.
DayPasses ==
    /\ today < DateA[3] + MaxRequests
    /\ today' = today + 1
    /\ UNCHANGED <<stores, clinic_control, gateway, gw_refunds, hs, requestsLeft,
                   faultsLeft, phonepe_env, cleanup, handled>>

\* Both payments failed.  The failure of o1 was handled on an earlier day (its
\* pending booking is marked failed), or its pending booking is gone; the
\* failure of o2 has not been handled yet.
InitCancel ==
    /\ pending_bookings \in
           [Orders -> {PendingDoc("o2"), NoPending,
                       [PendingDoc("o1") EXCEPT !.status = "failed",
                                                !.failedAt = DateA[3] - 1]}]
    /\ pending_bookings["o2"] = PendingDoc("o2")
    /\ pending_bookings["o1"] # PendingDoc("o2")
    /\ appointment_bookings \in [DocIds -> {Prefilled(0), Prefilled(Capacity - 1)}]
    /\ refunds = {}
    /\ failed_refunds = {}
    /\ webhook_logs = {}
    /\ clinic_control = NoControl
    /\ gateway = [o \in Orders |-> "FAILED"]
    /\ gw_refunds = [o \in Orders |-> 0]
    /\ hs = [h \in Handlers |-> Idle]
    /\ requestsLeft = MaxRequests
    /\ faultsLeft \in {0, MaxFaults}
    /\ phonepe_env = "PRODUCTION"
    /\ today = DateA[3]
    /\ cleanup = NoCleanup
    /\ handled = {}

NextCancel ==
    \/ \E h \in Handlers, o \in Orders : StartPoll(h, o)
    \/ \E h \in Handlers, o \in Orders, ev \in FailureEvents :
           StartWebhook(h, o, ev, TRUE, FALSE)
    \/ \E h \in Handlers : PollCancel(h)
    \/ \E h \in Handlers : WhLog(h)
    \/ \E h \in Handlers : HfCancel(h)
    \/ \E h \in Handlers : WhMark(h)
    \/ \E h \in Handlers : Return(h)
    \/ DayPasses

SpecCancel == InitCancel /\ [][NextCancel]_vars

-----------------------------------------------------------------------------
(* Document ids: formatDateToDocId applied to date strings *)

Years == {<<2, 0, 2, 5>>, <<2, 0, 2, 6>>}
TwoDigits == {<<0, 1>>, <<0, 3>>, <<1, 0>>, <<1, 1>>, <<1, 2>>}

\* Dates in YYYY-MM-DD form.
DateStrings ==
    {Template(<<y, m, d>>) : y \in Years, m \in TwoDigits, d \in TwoDigits}

\* Strings that are not of that form: a fourth part, a part missing, no dash.
OtherStrings ==
    {Template(<<<<2, 0, 2, 5>>, <<0, 3>>, <<0, 1>>>>) \o <<Dash, 1>>,
     <<2, 0, 2, 5, Dash, 0, 3>>,
     <<2, 0, 2, 5, 0, 3, 0, 1>>}

\* const docId = formatDateToDocId(date)
FormatDate(h) ==
    LET rec == hs[h] IN
    /\ rec.pc = "o_docid"
    /\ Set(h, Done([rec EXCEPT !.docId = DocIdOf(rec.req.date)], "docId"))
    /\ UNCHANGED <<stores, clinic_control, gateway, gw_refunds, requestsLeft,
                   faultsLeft, phonepe_env, today, cleanup, handled>>

\* Each handler holds a request with a date string and is about to compute
\* the document id.
InitDate ==
    /\ hs \in [Handlers ->
                 {[Idle EXCEPT !.kind = "order", !.pc = "o_docid",
                               !.req = [fields |-> TRUE, amount |-> Price,
                                        phone |-> <<>>, date |-> d]] :
                      d \in DateStrings \cup OtherStrings}]
    /\ pending_bookings = [o \in Orders |-> NoPending]
    /\ appointment_bookings = [docId \in DocIds |-> Prefilled(0)]
    /\ refunds = {}
    /\ failed_refunds = {}
    /\ webhook_logs = {}
    /\ clinic_control = NoControl
    /\ gateway = [o \in Orders |-> "NONE"]
    /\ gw_refunds = [o \in Orders |-> 0]
    /\ requestsLeft = 0
    /\ faultsLeft = 0
    /\ phonepe_env = "PRODUCTION"
    /\ today = DateA[3]
    /\ cleanup = NoCleanup
    /\ handled = {}

NextDate == \E h \in Handlers : FormatDate(h)

SpecDate == InitDate /\ [][NextDate]_vars

-----------------------------------------------------------------------------
(* Order creation: requests of every kind, the administrator closing the
   clinic, dates that are full or not, pending bookings that are old or not *)

MaxOrderRequests == 2 \* create-order requests in one behaviour

SundayDate == <<2025, 6, 8>>

GoodPhone == <<9, 8, 7, 6, 5, 4, 3, 2, 1, 0>>
Phones == {GoodPhone, <<5, 8, 7, 6, 5, 4, 3, 2, 1, 0>>, <<9, 8, 7, 6, 5, 4, 3, 2, 1>>}
Amounts == {Price, 500}
Hours == {18, 19, 23}

\* One request that passes every check on today's date before the cutoff, and
\* the requests that differ from it in one or more ways.
OrderRequests ==
    [fields : BOOLEAN, amount : Amounts, phone : Phones, date : {DateA, SundayDate}]

\* o1 is an order created earlier, not paid yet; o2 is an id not in use.
InitOrder ==
    /\ \E isOld \in BOOLEAN :
         pending_bookings = [o \in Orders |-> IF o = "o1"
                                              THEN [PendingDoc(o) EXCEPT !.old = isOld]
                                              ELSE NoPending]
    /\ appointment_bookings \in [DocIds -> {Prefilled(0), Prefilled(Capacity)}]
    /\ refunds = {}
    /\ failed_refunds = {}
    /\ webhook_logs = {}
    /\ clinic_control = NoControl
    /\ gateway = [o \in Orders |-> IF o = "o1" THEN "PENDING" ELSE "NONE"]
    /\ gw_refunds = [o \in Orders |-> 0]
    /\ hs = [h \in Handlers |-> Idle]
    /\ requestsLeft = MaxOrderRequests
    /\ faultsLeft \in {0, MaxFaults}
    /\ phonepe_env = "PRODUCTION"
    /\ today \in {2, 3}
    /\ cleanup = NoCleanup
    /\ handled = {}

NextOrder ==
    \/ \E h \in Handlers, req \in OrderRequests, currentHour \in Hours :
           StartOrder(h, req, currentHour)
    \/ \E h \in Handlers : OrderSweepQuery(h)
    \/ \E h \in Handlers : OrderSweepCommit(h)
    \/ \E h \in Handlers : OrderClinic(h)
    \/ \E h \in Handlers : OrderSlots(h)
    \/ \E h \in Handlers : OrderGateway(h)
    \/ \E h \in Handlers : OrderPending(h)
    \/ \E h \in Handlers : Return(h)
    \/ \E closedFrom \in ClosedFromInputs, closedTill \in ClosedTillInputs :
           ControlClinic(closedFrom, closedTill)

SpecOrder == InitOrder /\ [][NextOrder]_vars

-----------------------------------------------------------------------------
(* The sweep of create-order over pending bookings of every age and status *)

PendingStatuses == {"pending", "completed", "failed"}

\* The pending bookings earlier requests can have left behind for an order:
\* none, or one of any status, created more than 24 hours ago or not.
LeftPending(o) ==
    {NoPending} \cup
    {[PendingDoc(o) EXCEPT !.status = st, !.old = isOld] :
        st \in PendingStatuses, isOld \in BOOLEAN}

\* The request that passes every check: a weekday, before the cutoff.
GoodRequest == [fields |-> TRUE, amount |-> Price, phone |-> GoodPhone,
                date |-> DateA]

InitSweep ==
    /\ pending_bookings \in [Orders -> UNION {LeftPending(o) : o \in Orders}]
    /\ \A o \in Orders : pending_bookings[o] \in LeftPending(o)
    /\ appointment_bookings = [docId \in DocIds |-> Prefilled(1)]
    /\ refunds = {[refundId |-> <<"o1", 1>>, originalTransactionId |-> "o1",
                   status |-> "initiated"]}
    /\ failed_refunds = {}
    /\ webhook_logs = {[id |-> 1, transactionId |-> "o1",
                        eventType |-> "CHECKOUT_ORDER_COMPLETED",
                        processed |-> TRUE, old |-> FALSE]}
    /\ clinic_control = NoControl
    /\ gateway = [o \in Orders |-> IF pending_bookings[o].exists THEN "PENDING"
                                   ELSE "NONE"]
    /\ gw_refunds = [o \in Orders |-> IF o = "o1" THEN 1 ELSE 0]
    /\ hs = [h \in Handlers |-> Idle]
    /\ requestsLeft = MaxOrderRequests
    /\ faultsLeft \in {0, MaxFaults}
    /\ phonepe_env = "PRODUCTION"
    /\ today = DateA[3] - 1
    /\ cleanup = NoCleanup
    /\ handled = {}

NextSweep ==
    \/ \E h \in Handlers : StartOrder(h, GoodRequest, CutoffHour - 1)
    \/ \E h \in Handlers : OrderSweepQuery(h)
    \/ \E h \in Handlers : OrderSweepCommit(h)
    \/ \E h \in Handlers : OrderClinic(h)
    \/ \E h \in Handlers : OrderSlots(h)
    \/ \E h \in Handlers : OrderGateway(h)
    \/ \E h \in Handlers : OrderPending(h)
    \/ \E h \in Handlers : Return(h)

SpecSweep == InitSweep /\ [][NextSweep]_vars

-----------------------------------------------------------------------------
(* Capacity checks next to pending bookings: create-order requests and status
   polls of paid orders for a date that is full or one short of full *)

\* Each order has no pending booking, a fresh one or a stale one; the orders
\* that have one are paid.
InitSlots ==
    /\ pending_bookings \in
           [Orders -> {NoPending} \cup
                      {[PendingDoc(o) EXCEPT !.old = isOld] :
                          o \in Orders, isOld \in BOOLEAN}]
    /\ \A o \in Orders : pending_bookings[o].exists => pending_bookings[o].patient = o
    /\ appointment_bookings \in
           [DocIds -> {Prefilled(Capacity - 1), Prefilled(Capacity)}]
    /\ refunds = {}
    /\ failed_refunds = {}
    /\ webhook_logs = {}
    /\ clinic_control = NoControl
    /\ gateway = [o \in Orders |-> IF pending_bookings[o].exists THEN "SUCCESS"
                                   ELSE "NONE"]
    /\ gw_refunds = [o \in Orders |-> 0]
    /\ hs = [h \in Handlers |-> Idle]
    /\ requestsLeft = MaxRequests
    /\ faultsLeft \in {0, MaxFaults}
    /\ phonepe_env = "PRODUCTION"
    /\ today = DateA[3] - 1
    /\ cleanup = NoCleanup
    /\ handled = {}

NextSlots ==
    \/ \E h \in Handlers : StartOrder(h, GoodRequest, CutoffHour - 1)
    \/ \E h \in Handlers : OrderSweepQuery(h)
    \/ \E h \in Handlers : OrderSweepCommit(h)
    \/ \E h \in Handlers : OrderClinic(h)
    \/ \E h \in Handlers : OrderSlots(h)
    \/ \E h \in Handlers : OrderGateway(h)
    \/ \E h \in Handlers : OrderPending(h)
    \/ \E h \in Handlers, o \in Orders : StartPoll(h, o)
    \/ \E h \in Handlers : PollClinic(h)
    \/ \E h \in Handlers : CbGet(h)
    \/ \E h \in Handlers : CbTxRead(h)
    \/ \E h \in Handlers : CbTxCommit(h)
    \/ \E h \in Handlers : CbUpdate(h)
    \/ \E h \in Handlers : PollDelete(h)
    \/ \E h \in Handlers : Return(h)

SpecSlots == InitSlots /\ [][NextSlots]_vars

-----------------------------------------------------------------------------
(* Contention on a date document: a poll confirming a paid order while
   confirmations of other orders commit on the same date *)

\* The transaction of a confirmBooking call for an order of another patient
\* commits on the date document.
OtherConfirmation ==
    LET docId == formatDateToDocId(DateA)
        snap == appointment_bookings[docId] IN
    /\ ~SlotsFull(snap)
    /\ appointment_bookings' =
           [appointment_bookings EXCEPT
               ![docId] = DateDoc(Append(snap.bookings,
                                         [slotNumber |-> NextSlotNumber(snap),
                                          orderId |-> "prev",
                                          patient |-> "prev"]))]
    /\ UNCHANGED <<pending_bookings, refunds, failed_refunds, webhook_logs,
                   clinic_control, gateway, gw_refunds, hs, requestsLeft,
                   faultsLeft, phonepe_env, today, cleanup, handled>>

MaxPolls == 1         \* status polls in one behaviour of SpecContention

\* Both orders are paid and pending; the date document holds the bookings of
\* other orders and has room for MaxAttempts more; no store operation fails.
InitContention ==
    /\ pending_bookings = [o \in Orders |-> PendingDoc(o)]
    /\ appointment_bookings = [docId \in DocIds |-> Prefilled(Capacity - MaxAttempts)]
    /\ refunds = {}
    /\ failed_refunds = {}
    /\ webhook_logs = {}
    /\ clinic_control = NoControl
    /\ gateway = [o \in Orders |-> "SUCCESS"]
    /\ gw_refunds = [o \in Orders |-> 0]
    /\ hs = [h \in Handlers |-> Idle]
    /\ requestsLeft = MaxPolls
    /\ faultsLeft = 0
    /\ phonepe_env = "PRODUCTION"
    /\ today = DateA[3]
    /\ cleanup = NoCleanup
    /\ handled = {}

\* The steps of handler h inside confirmBooking.
ConfirmStep(h) == CbGet(h) \/ CbTxRead(h) \/ CbTxCommit(h) \/ CbUpdate(h)

NextContention ==
    \/ \E h \in Handlers, o \in Orders : StartPoll(h, o)
    \/ \E h \in Handlers : PollClinic(h)
    \/ \E h \in Handlers : CbGet(h)
    \/ \E h \in Handlers : CbTxRead(h)
    \/ \E h \in Handlers : CbTxCommit(h)
    \/ \E h \in Handlers : CbUpdate(h)
    \/ OtherConfirmation

\* The store answers the operations it was asked: while some handler waits
\* inside confirmBooking, one of them is resumed.
SpecContention ==
    /\ InitContention
    /\ [][NextContention]_vars
    /\ WF_vars(\E h \in Handlers : ConfirmStep(h))

-----------------------------------------------------------------------------
(* Reconciliation of paid orders: status polls and validated success webhooks
   of orders the gateway reports as SUCCESS, the clinic open, the date nearly
   empty, and every handler resumed by the store *)

InitReconcile ==
    /\ pending_bookings = [o \in Orders |-> PendingDoc(o)]
    /\ appointment_bookings = [docId \in DocIds |-> Prefilled(0)]
    /\ refunds = {}
    /\ failed_refunds = {}
    /\ webhook_logs = {}
    /\ clinic_control = NoControl
    /\ gateway = [o \in Orders |-> "SUCCESS"]
    /\ gw_refunds = [o \in Orders |-> 0]
    /\ hs = [h \in Handlers |-> Idle]
    /\ requestsLeft = MaxRequests
    /\ faultsLeft \in {0, MaxFaults}
    /\ phonepe_env = "PRODUCTION"
    /\ today = DateA[3]
    /\ cleanup = NoCleanup
    /\ handled = {}

\* The steps of handler h after the request arrived, up to the answer.
ReconcileStep(h) ==
    \/ PollClinic(h)
    \/ WhLog(h)
    \/ HsGet(h)
    \/ CbGet(h)
    \/ CbTxRead(h)
    \/ CbTxCommit(h)
    \/ CbUpdate(h)
    \/ PollDelete(h)
    \/ HsDelete(h)
    \/ WhMark(h)
    \/ Return(h)

NextReconcile ==
    \/ \E h \in Handlers, o \in Orders : StartPoll(h, o)
    \/ \E h \in Handlers, o \in Orders, ev \in SuccessEvents :
           StartWebhook(h, o, ev, TRUE, FALSE)
    \/ \E h \in Handlers : PollClinic(h)
    \/ \E h \in Handlers : WhLog(h)
    \/ \E h \in Handlers : HsGet(h)
    \/ \E h \in Handlers : CbGet(h)
    \/ \E h \in Handlers : CbTxRead(h)
    \/ \E h \in Handlers : CbTxCommit(h)
    \/ \E h \in Handlers : CbUpdate(h)
    \/ \E h \in Handlers : PollDelete(h)
    \/ \E h \in Handlers : HsDelete(h)
    \/ \E h \in Handlers : WhMark(h)
    \/ \E h \in Handlers : Return(h)

\* Every await of a handler returns: the handler takes its next step.
SpecReconcile ==
    /\ InitReconcile
    /\ [][NextReconcile]_vars
    /\ \A h \in Handlers : WF_vars(ReconcileStep(h))

-----------------------------------------------------------------------------
(* Confirmation of orders booked for two different dates *)

DateB == <<2025, 6, 4>>

\* The date each order was created for.
OrderDate(o) == IF o = "o1" THEN DateA ELSE DateB

FrameDocIds == {formatDateToDocId(OrderDate(o)) : o \in Orders}

\* Both orders are paid and pending, each for its own date; each date document
\* is absent or holds the bookings of other orders.
InitFrame ==
    /\ pending_bookings = [o \in Orders |->
                              [PendingDoc(o) EXCEPT !.date = OrderDate(o)]]
    /\ appointment_bookings \in
           [FrameDocIds -> {Prefilled(0), Prefilled(Capacity - 1)}]
    /\ refunds = {}
    /\ failed_refunds = {}
    /\ webhook_logs = {}
    /\ clinic_control = NoControl
    /\ gateway = [o \in Orders |-> "SUCCESS"]
    /\ gw_refunds = [o \in Orders |-> 0]
    /\ hs = [h \in Handlers |-> Idle]
    /\ requestsLeft = MaxRequests
    /\ faultsLeft \in {0, MaxFaults}
    /\ phonepe_env = "PRODUCTION"
    /\ today = DateA[3]
    /\ cleanup = NoCleanup
    /\ handled = {}

NextFrame ==
    \/ \E h \in Handlers, o \in Orders : StartPoll(h, o)
    \/ \E h \in Handlers, o \in Orders, ev \in SuccessEvents :
           StartWebhook(h, o, ev, TRUE, FALSE)
    \/ \E h \in Handlers : PollClinic(h)
    \/ \E h \in Handlers : WhLog(h)
    \/ \E h \in Handlers : HsGet(h)
    \/ \E h \in Handlers : CbGet(h)
    \/ \E h \in Handlers : CbTxRead(h)
    \/ \E h \in Handlers : CbTxCommit(h)
    \/ \E h \in Handlers : CbUpdate(h)
    \/ \E h \in Handlers : PollDelete(h)
    \/ \E h \in Handlers : HsDelete(h)
    \/ \E h \in Handlers : WhMark(h)
    \/ \E h \in Handlers : Return(h)

SpecFrame == InitFrame /\ [][NextFrame]_vars

-----------------------------------------------------------------------------
(* The clinic availability service, read by status polls on every day around
   every closed period the administrator can set *)

ClinicDays == 1..5
WindowDays == 2..4

\* The control documents the administrative routes leave behind: none, the one
\* of turn-on-clinic, and those of control-clinic (closedTill 0: indefinite).
ControlStates ==
    {NoControl,
     [exists |-> TRUE, isManuallyOverridden |-> FALSE, closedFrom |-> 0,
      closedTill |-> 0]}
    \cup {c \in [exists : {TRUE}, isManuallyOverridden : {TRUE},
                 closedFrom : WindowDays, closedTill : {0} \cup WindowDays] :
             Defined(c.closedTill) => c.closedFrom <= c.closedTill}

InitClinic ==
    /\ pending_bookings = [o \in Orders |-> PendingDoc(o)]
    /\ appointment_bookings = [docId \in DocIds |-> Prefilled(0)]
    /\ refunds = {}
    /\ failed_refunds = {}
    /\ webhook_logs = {}
    /\ clinic_control \in ControlStates
    /\ gateway = PaidAndFailed
    /\ gw_refunds = [o \in Orders |-> 0]
    /\ hs = [h \in Handlers |-> Idle]
    /\ requestsLeft = MaxRequests
    /\ faultsLeft \in {0, MaxFaults}
    /\ phonepe_env = "PRODUCTION"
    /\ today \in ClinicDays
    /\ cleanup = NoCleanup
    /\ handled = {}

NextClinic ==
    \/ \E h \in Handlers, o \in Orders : StartPoll(h, o)
    \/ \E h \in Handlers : PollClinic(h)
    \/ \E closedFrom \in ClosedFromInputs, closedTill \in ClosedTillInputs :
           ControlClinic(closedFrom, closedTill)
    \/ TurnOnClinic

SpecClinic == InitClinic /\ [][NextClinic]_vars

-----------------------------------------------------------------------------
(* The administrative routes next to the requests that read ClinicControl:
   create-order, status polls and webhooks, over several days *)

\* closedFrom and closedTill of the requests (0: the field is left out).
AdminFrom == {0, DateA[3] + 1, DateA[3] + 2}
AdminTill == {0, DateA[3] + 1, DateA[3] + 2}

\* Order o1 is paid and pending (created more than 24 hours ago or not), o2 is
\* not created yet; no control document.  Each handler serves one request.
InitAdmin ==
    /\ \E isOld \in BOOLEAN :
          pending_bookings = [o \in Orders |->
                                 IF o = "o1" THEN [PendingDoc(o) EXCEPT !.old = isOld]
                                 ELSE NoPending]
    /\ appointment_bookings = [docId \in DocIds |-> Prefilled(0)]
    /\ refunds = {}
    /\ failed_refunds = {}
    /\ webhook_logs = {}
    /\ clinic_control = NoControl
    /\ gateway = [o \in Orders |-> IF o = "o1" THEN "SUCCESS" ELSE "NONE"]
    /\ gw_refunds = [o \in Orders |-> 0]
    /\ hs = [h \in Handlers |-> Idle]
    /\ requestsLeft = MaxRequests
    /\ faultsLeft \in {0, MaxFaults}
    /\ phonepe_env = "PRODUCTION"
    /\ today = DateA[3]
    /\ cleanup = NoCleanup
    /\ handled = {}

NextAdmin ==
    \/ \E h \in Handlers, isAdmin \in BOOLEAN, closedFrom \in AdminFrom,
          closedTill \in AdminTill :
           PostControlClinic(h, isAdmin, closedFrom, closedTill)
    \/ \E h \in Handlers, isAdmin \in BOOLEAN : PostTurnOnClinic(h, isAdmin)
    \/ DayPasses
    \/ \E h \in Handlers : StartOrder(h, GoodRequest, CutoffHour - 1)
    \/ \E h \in Handlers : OrderSweepQuery(h)
    \/ \E h \in Handlers : OrderSweepCommit(h)
    \/ \E h \in Handlers : OrderClinic(h)
    \/ \E h \in Handlers : OrderSlots(h)
    \/ \E h \in Handlers : OrderGateway(h)
    \/ \E h \in Handlers : OrderPending(h)
    \/ \E h \in Handlers, o \in Orders : StartPoll(h, o)
    \/ \E h \in Handlers : PollClinic(h)
    \/ \E h \in Handlers : PollRefund(h)
    \/ \E h \in Handlers : PollRefundRecord(h)
    \/ \E h \in Handlers : PollRefundDelete(h)
    \/ \E h \in Handlers : PollFailedRefund(h)
    \/ \E h \in Handlers : CbGet(h)
    \/ \E h \in Handlers : CbTxRead(h)
    \/ \E h \in Handlers : CbTxCommit(h)
    \/ \E h \in Handlers : CbUpdate(h)
    \/ \E h \in Handlers : PollDelete(h)
    \/ \E h \in Handlers, o \in Orders, ev \in SuccessEvents :
           StartWebhook(h, o, ev, TRUE, FALSE)
    \/ \E h \in Handlers : WhLog(h)
    \/ \E h \in Handlers : HsGet(h)
    \/ \E h \in Handlers : HsDelete(h)
    \/ \E h \in Handlers : WhMark(h)

SpecAdmin == InitAdmin /\ [][NextAdmin]_vars

-----------------------------------------------------------------------------
(* Properties *)

Bookings(docId) == appointment_bookings[docId].bookings

\* The positions of the confirmed bookings of order o in a date document.
ConfirmedOf(docId, o) ==
    {i \in 1..Len(Bookings(docId)) : Bookings(docId)[i].orderId = o}

Confirmed(o) == \E docId \in DocIds : ConfirmedOf(docId, o) # {}

HasRefundRecord(o) == \E r \in refunds : r.originalTransactionId = o

\* C1: under concurrent confirmations every date document holds at most 10
\* bookings and no two of them share a slot number.
C1_CapacityAndUniqueSlots ==
    \A docId \in DocIds :
        /\ Len(Bookings(docId)) <= Capacity
        /\ \A i, j \in 1..Len(Bookings(docId)) :
               i # j => Bookings(docId)[i].slotNumber # Bookings(docId)[j].slotNumber

\* C1 witness: two confirmations raced for the last slot: one committed slot 10
\* while the other still holds the list it read before that commit.
C1_Witness ==
    \E g, h \in Handlers :
        /\ g # h
        /\ hs[g].slot = Capacity
        /\ hs[h].pc = "cb_txcommit"
        /\ Len(hs[h].snap.bookings) = Capacity - 1

\* C2: when a status poll and a success webhook handle the same paid
\* transaction, in any interleaving, at most one ConfirmedBooking of that order
\* exists in the date document.
C2_PollAndWebhookConfirmOnce ==
    \A g, h \in Handlers :
        ( /\ hs[g].kind = "poll" /\ hs[g].signal = "SUCCESS"
          /\ hs[h].kind = "webhook" /\ hs[h].signal = "SUCCESS"
          /\ hs[g].txn = hs[h].txn )
        => \A docId \in DocIds : Cardinality(ConfirmedOf(docId, hs[g].txn)) <= 1

\* C3: a confirmBooking call that finds the pending booking already completed
\* does not run the slot-allocation transaction again: it appends nothing.
C3_ConfirmTwiceAppendsOnce ==
    \A h \in Handlers : hs[h].pendingStatus = "completed" => hs[h].slot = 0

\* A webhook delivery h arrives in this step: the step covers validation and
\* the duplicate query of POST /webhook.
Arrives(h) == hs[h].pc = "idle" /\ hs'[h].kind = "webhook" /\ hs'[h].pc # "idle"

\* The delivery is answered at once with "Webhook already processed" and the
\* step writes to no collection.
ShortCircuits(h) ==
    /\ hs'[h].pc = "done"
    /\ hs'[h].resp = "Webhook already processed"
    /\ UNCHANGED stores

\* C4, as stated: an authenticated delivery of a (transactionId, eventType)
\* that an earlier delivery has handled short-circuits with the "already
\* processed" answer and changes no pending booking, date document, refund
\* record or webhook log.
C4_RedeliveryShortCircuits ==
    [][\A h \in Handlers :
          ( /\ Arrives(h)
            /\ hs'[h].validated
            /\ <<hs'[h].txn, hs'[h].ev>> \in handled )
          => ShortCircuits(h)]_vars

\* C4, amended: an authenticated delivery of a (transactionId, eventType)
\* short-circuits with the "already processed" answer, writing nothing,
\* whenever webhook_logs still holds a record of that pair when the duplicate
\* query runs; the record of a handled delivery is there until the log cleanup
\* deletes it, which it may do once the record is more than 30 days old.
C4_RedeliveryShortCircuitsWhileLogged ==
    [][\A h \in Handlers :
          ( /\ Arrives(h)
            /\ hs'[h].validated
            /\ \E l \in webhook_logs : /\ l.transactionId = hs'[h].txn
                                       /\ l.eventType = hs'[h].ev )
          => ShortCircuits(h)]_vars

\* C4 witness: an authenticated redelivery of a handled pair has been answered
\* "Webhook already processed" while the log of the first delivery exists.
C4_Witness ==
    \E h \in Handlers :
        /\ hs[h].kind = "webhook" /\ hs[h].validated
        /\ hs[h].pc = "done" /\ hs[h].resp = "Webhook already processed"
        /\ <<hs[h].txn, hs[h].ev>> \in handled
        /\ \E l \in webhook_logs :
               /\ l.transactionId = hs[h].txn /\ l.eventType = hs[h].ev
               /\ l.processed

\* C5: no success-handling path appends a ConfirmedBooking when the clinic
\* was reported closed at the time the path took up the success signal.
C5_NoConfirmWhenClosed ==
    \A h \in Handlers : hs[h].closedAtSignal => hs[h].slot = 0

\* C6: a poll that sees SUCCESS while isClinicOpen reports closed takes the
\* refund branch: it calls initiateRefund, never enters confirmBooking, appends
\* nothing and never answers SUCCESS.
C6_ClosedPollRefunds ==
    \A h \in Handlers :
        ( /\ hs[h].kind = "poll" /\ hs[h].signal = "SUCCESS"
          /\ hs[h].clinicStatus = "closed" )
        => /\ hs[h].pc \in {"p_refund", "p_refrec", "p_refdel", "p_failrec", "done"}
           /\ hs[h].pc # "p_refund" => hs[h].refundTried
           /\ hs[h].cbResult = "none"
           /\ hs[h].slot = 0
           /\ hs[h].resp \notin {"SUCCESS", "Booking confirmed successfully"}

\* C6 witness: such a poll has answered REFUNDED after the gateway accepted
\* the refund.
C6_Witness ==
    \E h \in Handlers :
        /\ hs[h].kind = "poll" /\ hs[h].signal = "SUCCESS"
        /\ hs[h].clinicStatus = "closed"
        /\ hs[h].pc = "done" /\ hs[h].resp = "REFUNDED"
        /\ gw_refunds[hs[h].txn] > 0

\* C7: a poll whose confirmBooking failed for lack of slots has, when it
\* answers, initiated a refund and left a RefundRecord or a FailedRefundRecord.
C7_NoSlotsRefunds ==
    \A h \in Handlers :
        ( /\ hs[h].kind = "poll" /\ hs[h].pc = "done"
          /\ hs[h].cbResult = "No slots available for this date" )
        => /\ hs[h].refundTried
           /\ HasRefundRecord(hs[h].txn) \/ hs[h].txn \in failed_refunds

\* C8: when refund initiation failed in the refund branch of the poll, a
\* failed_refunds record of the transaction exists by the time the poll answers.
C8_FailedRefundRecorded ==
    \A h \in Handlers :
        ( /\ hs[h].kind = "poll" /\ hs[h].pc = "done"
          /\ hs[h].refundTried /\ hs[h].refundId = 0 )
        => hs[h].txn \in failed_refunds

\* C9: once the SUCCESS signal of a transaction with a pending booking has been
\* fully handled, a ConfirmedBooking, a RefundRecord or a FailedRefundRecord of
\* that order exists.
C9_PaidOrderAccountedFor ==
    \A h \in Handlers :
        (hs[h].pc = "done" /\ hs[h].signal = "SUCCESS" /\ hs[h].hadPending)
        => \/ Confirmed(hs[h].txn)
           \/ HasRefundRecord(hs[h].txn)
           \/ hs[h].txn \in failed_refunds

\* C10: the status of a PendingBooking never changes from completed to failed
\* nor from failed to completed.
C10_StatusTerminal ==
    [][\A o \in Orders :
          /\ ~(pending_bookings[o].status = "completed"
                 /\ pending_bookings'[o].status = "failed")
          /\ ~(pending_bookings[o].status = "failed"
                 /\ pending_bookings'[o].status = "completed")]_vars

\* C11: once the status of a RefundRecord is completed or failed, no refund
\* webhook event and no updateRefundStatus call changes it.
C11_RefundStatusTerminal ==
    [][\A r \in refunds :
          r.status \in {"completed", "failed"}
          => \A q \in refunds' : q.refundId = r.refundId => q.status = r.status]_vars

\* C12: webhook_logs holds at most one record per (transactionId, eventType),
\* also after two deliveries of the same webhook were handled concurrently.
C12_OneLogPerPair ==
    \A l, m \in webhook_logs :
        (l.transactionId = m.transactionId /\ l.eventType = m.eventType)
        => l.id = m.id

\* C13: with confirmBooking as the only writer, the slot numbers of a date
\* document are exactly 1..n for its n bookings, n <= 10: none exceeds 10 and
\* none is reused.
C13_SlotsAreOneToN ==
    \A docId \in DocIds :
        /\ Len(Bookings(docId)) <= Capacity
        /\ {Bookings(docId)[i].slotNumber : i \in 1..Len(Bookings(docId))}
               = 1..Len(Bookings(docId))

\* C13 witness: a date document that started empty holds two bookings, the
\* second one appended by a confirmation that was given slot 2.
C13_Witness ==
    \E docId \in DocIds, h \in Handlers :
        /\ Len(Bookings(docId)) = 2
        /\ hs[h].slot = 2
        /\ Bookings(docId)[2].slotNumber = 2

\* The date document of the pending booking of order o.
DateDocOf(o) == appointment_bookings[formatDateToDocId(PendingDoc(o).date)]

\* C14: a confirmBooking whose transaction reads a date document that already
\* holds 10 bookings fails with the no-slots error and leaves the date
\* documents and the pending bookings as they were.
C14_FullDateRejected ==
    [][\A h \in Handlers :
          ( /\ hs[h].pc = "cb_txread" /\ hs'[h] # hs[h]
            /\ DateDocOf(hs[h].txn).exists
            /\ Len(DateDocOf(hs[h].txn).bookings) >= Capacity )
          => /\ hs'[h].cbResult = "No slots available for this date"
             /\ hs'[h].slot = 0
             /\ appointment_bookings' = appointment_bookings
             /\ pending_bookings' = pending_bookings]_vars

\* C14 witness: a confirmBooking has failed with the no-slots error on a full
\* date, and the pending booking is still there with status pending.
C14_Witness ==
    \E h \in Handlers :
        /\ hs[h].cbResult = "No slots available for this date"
        /\ Len(DateDocOf(hs[h].txn).bookings) = Capacity
        /\ pending_bookings[hs[h].txn].exists
        /\ pending_bookings[hs[h].txn].status = "pending"

\* The preconditions of create-order as handler h met them, in the order of
\* the specification; the last two are known once the handler has read the
\* clinic control and the date document.
FieldsPresent(h) == hs[h].req.fields
AmountRight(h) == hs[h].req.amount = 400
PhoneValid(h) == Len(hs[h].req.phone) = 10 /\ hs[h].req.phone[1] >= 6
NotSunday(h) == hs[h].req.date # SundayDate
BeforeCutoff(h) == ~(hs[h].req.date[3] = today /\ hs[h].hour >= 19)
StaticPassed(h) ==
    FieldsPresent(h) /\ AmountRight(h) /\ PhoneValid(h) /\ NotSunday(h)
        /\ BeforeCutoff(h)
DateFull(h) ==
    Len(appointment_bookings[formatDateToDocId(hs[h].req.date)].bookings) >= 10

\* The answers with status 400.
PreconditionErrors ==
    {"Missing required fields", "Invalid amount", "Invalid phone number",
     "Clinic is closed on Sundays", "Bookings for today are closed after 7 PM",
     "CLINIC_CLOSED", "No slots available for this date"}

\* C15: create-order reaches the gateway, and creates a pending booking, only
\* after all seven preconditions passed; a request answered 400 made no gateway
\* call and created no pending booking, and its error is that of the first
\* precondition that failed, in the order fields, amount, phone, Sunday,
\* cutoff, clinic open, slots.
C15_PreconditionsBeforeGateway ==
    \A h \in Handlers :
        hs[h].kind = "order" =>
        /\ (hs[h].pc \in {"o_gateway", "o_pending"} \/ hs[h].txn # "none")
           => StaticPassed(h) /\ hs[h].clinicStatus = "open" /\ ~DateFull(h)
        /\ hs[h].resp \in PreconditionErrors => hs[h].txn = "none"
        /\ hs[h].resp = "Missing required fields" => ~FieldsPresent(h)
        /\ hs[h].resp = "Invalid amount" => FieldsPresent(h) /\ ~AmountRight(h)
        /\ hs[h].resp = "Invalid phone number"
           => FieldsPresent(h) /\ AmountRight(h) /\ ~PhoneValid(h)
        /\ hs[h].resp = "Clinic is closed on Sundays"
           => FieldsPresent(h) /\ AmountRight(h) /\ PhoneValid(h) /\ ~NotSunday(h)
        /\ hs[h].resp = "Bookings for today are closed after 7 PM"
           => FieldsPresent(h) /\ AmountRight(h) /\ PhoneValid(h) /\ NotSunday(h)
              /\ ~BeforeCutoff(h)
        /\ hs[h].resp = "CLINIC_CLOSED"
           => StaticPassed(h) /\ hs[h].clinicStatus = "closed"
        /\ hs[h].resp = "No slots available for this date"
           => StaticPassed(h) /\ hs[h].clinicStatus = "open" /\ DateFull(h)

\* C15 witness: a request for a Sunday, otherwise in order, was answered 400
\* while the gateway has seen no new order and no pending booking was created.
C15_Witness ==
    \E h \in Handlers :
        /\ hs[h].kind = "order" /\ hs[h].pc = "done"
        /\ hs[h].resp = "Clinic is closed on Sundays"
        /\ hs[h].req.date = SundayDate
        /\ gateway["o2"] = "NONE"
        /\ ~pending_bookings["o2"].exists

\* C16: a create-order request rejected for a validation or precondition
\* failure has written to no collection: it created no pending booking and
\* its cleanup deleted none.
C16_RejectionWritesNothing ==
    \A h \in Handlers :
        (hs[h].kind = "order" /\ hs[h].resp \in PreconditionErrors)
        => hs[h].txn = "none" /\ ~hs[h].deleted

\* C17: the cutoff rejects a request, otherwise valid, exactly when its date
\* is today and the local hour is 19 or later; for another date no hour
\* rejects it.
C17_CutoffAtNineteen ==
    \A h \in Handlers :
        ( /\ hs[h].kind = "order"
          /\ FieldsPresent(h) /\ AmountRight(h) /\ PhoneValid(h) /\ NotSunday(h) )
        => /\ (hs[h].req.date[3] = today /\ hs[h].hour >= 19)
              => hs[h].resp = "Bookings for today are closed after 7 PM"
           /\ (hs[h].req.date[3] = today /\ hs[h].hour < 19)
              => hs[h].resp \notin {"Missing required fields", "Invalid amount",
                      "Invalid phone number", "Clinic is closed on Sundays",
                      "Bookings for today are closed after 7 PM"}
           /\ hs[h].req.date[3] # today
              => hs[h].resp # "Bookings for today are closed after 7 PM"

\* C17 witness: two requests for today, one at 18 that went on to create the
\* order and one at 19 that was rejected.
C17_Witness ==
    \E g, h \in Handlers :
        /\ hs[g].kind = "order" /\ hs[h].kind = "order"
        /\ hs[g].req.date[3] = today /\ hs[h].req.date[3] = today
        /\ hs[g].hour = 18 /\ hs[g].resp = "order created"
        /\ hs[h].hour = 19
        /\ hs[h].resp = "Bookings for today are closed after 7 PM"

\* Handler h gets the answer of isClinicOpen in this step.
ReadsClinic(h) == hs[h].pc = "p_clinic" /\ hs'[h].pc # "p_clinic"

\* The control document describes a closed period that contains the day.
InClosedPeriod(control, day) ==
    /\ control.exists
    /\ control.isManuallyOverridden
    /\ control.closedFrom # 0 /\ control.closedFrom <= day
    /\ control.closedTill = 0 \/ control.closedTill >= day

\* C18: when the read of ClinicControl succeeds, isClinicOpen reports closed
\* exactly when the record exists with the override flag true, closedFrom set
\* and closedFrom <= today, and closedTill absent or closedTill >= today.
C18_ClosedExactlyInPeriod ==
    [][\A h \in Handlers :
          (ReadsClinic(h) /\ faultsLeft' = faultsLeft)
          => (hs'[h].clinicStatus = "closed"
                 <=> InClosedPeriod(clinic_control, today))]_vars

\* C18 witness: the service has reported closed on the last day of a closed
\* period that began on an earlier day.
C18_Witness ==
    \E h \in Handlers :
        /\ hs[h].clinicStatus = "closed"
        /\ clinic_control.isManuallyOverridden
        /\ clinic_control.closedFrom < today
        /\ clinic_control.closedTill = today

\* C19: when the read of ClinicControl fails, isClinicOpen reports open,
\* whatever the stored override window is.
C19_FailOpen ==
    [][\A h \in Handlers :
          (ReadsClinic(h) /\ faultsLeft' < faultsLeft)
          => hs'[h].clinicStatus = "open"]_vars

\* C19 witness: the service reported open, the read having failed, on a day
\* inside the stored closed period.
C19_Witness ==
    \E h \in Handlers :
        /\ hs[h].clinicStatus = "open"
        /\ faultsLeft < MaxFaults
        /\ InClosedPeriod(clinic_control, today)

BusinessPcs == {"hs_get", "cb_get", "cb_txread", "cb_txcommit", "cb_update",
                "hs_delete", "hf_cancel", "hr_query", "hr_update"}

\* C21: a failure of the business logic of an authenticated webhook never
\* turns into a non-200 answer: whatever happens inside the event handlers
\* (confirmBooking or cancelBooking failing, a store operation throwing), the
\* webhook handler goes on to mark its log as processed, and once that update
\* has succeeded the answer is 200, whatever the business logic returned.
C21_BusinessFailureAnswered200 ==
    [][\A h \in Handlers :
          hs[h].kind = "webhook"
          => /\ ((hs[h].pc \in BusinessPcs /\ hs'[h] # hs[h])
                    => hs'[h].pc \in BusinessPcs \cup {"w_mark"})
             /\ ((hs[h].pc = "w_mark" /\ hs'[h] # hs[h] /\ faultsLeft' = faultsLeft)
                    => (hs'[h].pc = "done"
                          /\ hs'[h].resp = "Webhook processed successfully"))]_vars

\* C21 witness: a webhook was answered 200 although the update of the pending
\* booking threw and confirmBooking returned a failure.
C21_Witness ==
    \E h \in Handlers :
        /\ hs[h].kind = "webhook"
        /\ hs[h].cbResult = "Failed to confirm booking"
        /\ faultsLeft < MaxFaults
        /\ hs[h].resp = "Webhook processed successfully"

\* Handler h has come to its call of cancelBooking and makes it in this step.
Cancels(h) == hs[h].pc \in {"p_cancel", "hf_cancel"} /\ hs'[h] # hs[h]

\* C22: cancelBooking never reverses a confirmed booking: whatever the order
\* and the state, also when the order is already confirmed, the call leaves
\* every date document of appointment_bookings unchanged.
C22_CancelKeepsDateDocuments ==
    [][\A h \in Handlers : Cancels(h) => UNCHANGED appointment_bookings]_vars

\* C22 witness: cancelBooking has marked as failed the pending booking of an
\* order whose ConfirmedBooking is in the date document.
C22_Witness ==
    \E h \in Handlers :
        /\ hs[h].signal = "FAILED"
        /\ hs[h].pc \in {"w_mark", "done"}
        /\ pending_bookings[hs[h].txn].status = "failed"
        /\ Confirmed(hs[h].txn)

\* A pending booking without its failedAt timestamp.
WithoutFailedAt(doc) == [doc EXCEPT !.failedAt = 0]

\* What every handling of a failed signal does, repeated or not: it appends
\* no ConfirmedBooking, creates no pending booking where there is none, marks
\* the pending booking as failed when its update succeeds, and changes the
\* pending booking of no other order.
CancelEffect(h) ==
    LET o == hs[h].txn IN
    /\ UNCHANGED appointment_bookings
    /\ \A q \in Orders \ {o} : pending_bookings'[q] = pending_bookings[q]
    /\ ~pending_bookings[o].exists => UNCHANGED pending_bookings
    /\ (pending_bookings[o].exists /\ faultsLeft' = faultsLeft)
           => pending_bookings'[o].status = "failed"

\* C23, as stated: a terminal failed signal marks the existing PendingBooking
\* as failed and creates no ConfirmedBooking and no PendingBooking, and
\* handling it again, the pending booking being marked failed already, leaves
\* the store in the same state.
C23_FailedSignalIdempotent ==
    [][\A h \in Handlers :
          Cancels(h)
          => /\ CancelEffect(h)
             /\ pending_bookings[hs[h].txn].status = "failed"
                    => UNCHANGED pending_bookings]_vars

\* C23, amended: as above, but handling the signal again leaves the store in
\* the same state except for the failedAt timestamp of the pending booking,
\* which the repeated update sets anew.
C23_FailedSignalIdempotentButFailedAt ==
    [][\A h \in Handlers :
          Cancels(h)
          => /\ CancelEffect(h)
             /\ pending_bookings[hs[h].txn].status = "failed"
                    => \A q \in Orders : WithoutFailedAt(pending_bookings'[q])
                                            = WithoutFailedAt(pending_bookings[q])]_vars

\* C23 witness: the failure of o1, handled on an earlier day, has been handled
\* again today: its pending booking is still failed, with today's failedAt.
C23_Witness ==
    \E h \in Handlers :
        /\ hs[h].signal = "FAILED"
        /\ hs[h].txn = "o1"
        /\ hs[h].pc \in {"w_mark", "done"}
        /\ pending_bookings["o1"].status = "failed"
        /\ pending_bookings["o1"].failedAt = today

\* YYYY-MM-DD: four digits, two digits, two digits, dashes between.
IsDateString(str) ==
    /\ Len(str) = 10
    /\ \A i \in 1..10 : IF i \in {5, 8} THEN str[i] = Dash ELSE str[i] \in 0..9

\* Handler h has computed the document id of a date in YYYY-MM-DD form.
Formatted(h) == hs[h].docId # <<>> /\ IsDateString(hs[h].req.date)

\* C24: a date in YYYY-MM-DD form formatted to its document id and read back
\* from it (split at the dashes, day, month and year put back in their order,
\* which is formatDateToDocId once more) is the original date, and two
\* different dates have different document ids.
C24_DocIdRoundTrip ==
    \A g, h \in Handlers :
        (Formatted(g) /\ Formatted(h))
        => /\ DocIdOf(hs[h].docId) = hs[h].req.date
           /\ hs[g].docId = hs[h].docId => hs[g].req.date = hs[h].req.date

\* C24 witness: the document ids of two dates that differ only in that day and
\* month are exchanged have both been computed.
C24_Witness ==
    \E g, h \in Handlers :
        /\ Formatted(g) /\ Formatted(h)
        /\ hs[g].req.date # hs[h].req.date
        /\ SubSeq(hs[g].req.date, 6, 7) = SubSeq(hs[h].req.date, 9, 10)
        /\ SubSeq(hs[g].req.date, 9, 10) = SubSeq(hs[h].req.date, 6, 7)
        /\ SubSeq(hs[g].req.date, 1, 4) = SubSeq(hs[h].req.date, 1, 4)

\* The bookings list of a date document after a step begins with the list
\* before the step.
AppendOnly(docId) ==
    /\ appointment_bookings'[docId].exists \/ ~appointment_bookings[docId].exists
    /\ Len(appointment_bookings'[docId].bookings) >= Len(Bookings(docId))
    /\ SubSeq(appointment_bookings'[docId].bookings, 1, Len(Bookings(docId)))
           = Bookings(docId)

\* C25: under concurrent confirmations no committed append is lost: every
\* step leaves the bookings already in a date document in place and unchanged
\* (the list only grows at its end), and a handler whose confirmBooking call
\* returned success finds its ConfirmedBooking, with the slot number it was
\* given, in the date document in every later state.
C25_NoLostAppend ==
    [][/\ \A docId \in DocIds : AppendOnly(docId)
       /\ \A h \in Handlers :
              hs'[h].cbResult = "success"
              => \E docId \in DocIds :
                     \E i \in 1..Len(appointment_bookings'[docId].bookings) :
                         appointment_bookings'[docId].bookings[i] =
                             NewBooking(hs'[h].txn, PendingDoc(hs'[h].txn),
                                        hs'[h].slot)]_vars

\* C25 witness: one confirmation has committed its append while another, which
\* had read the list before that commit, was refused and runs its transaction
\* again.
C25_Witness ==
    \E g, h \in Handlers :
        /\ g # h
        /\ hs[g].slot > 0
        /\ ConfirmedOf(formatDateToDocId(DateA), hs[g].txn) # {}
        /\ hs[h].pc = "cb_txread"
        /\ hs[h].attempts > 0

\* The transaction of handler h committed and the update of the pending
\* booking after it failed: confirmBooking returned a failure.
UpdateFailedAfterCommit(h) ==
    /\ hs[h].pc = "done"
    /\ hs[h].slot > 0
    /\ hs[h].cbResult = "Failed to confirm booking"

\* C26: when the update of the PendingBooking after the commit has failed, the
\* PendingBooking left in status pending is benign: no poll or webhook for the
\* order appends a second ConfirmedBooking, so the order keeps exactly the one
\* ConfirmedBooking that was committed.
C26_StalePendingIsBenign ==
    \A h \in Handlers :
        (UpdateFailedAfterCommit(h) /\ pending_bookings[hs[h].txn].status = "pending")
        => \A docId \in DocIds : Cardinality(ConfirmedOf(docId, hs[h].txn)) <= 1

\* Handler h makes the first step of confirmBooking, the read of the pending
\* booking, and finds none.
ConfirmsWithoutPending(h) ==
    /\ hs[h].pc = "cb_get"
    /\ hs'[h] # hs[h]
    /\ ~pending_bookings[hs[h].txn].exists

\* C27: confirmBooking for an order that has no PendingBooking returns the
\* failure 'Pending booking not found' without starting the slot-allocation
\* transaction, and leaves every date document and every pending booking
\* unchanged.
C27_NoPendingNoTransaction ==
    [][\A h \in Handlers :
          ConfirmsWithoutPending(h)
          => /\ hs'[h].cbResult = "Pending booking not found"
             /\ hs'[h].pc \notin {"cb_txread", "cb_txcommit", "cb_update"}
             /\ hs'[h].slot = 0
             /\ UNCHANGED <<appointment_bookings, pending_bookings>>]_vars

\* C27 witness: a confirmBooking call has returned 'Pending booking not found'
\* (the pending booking was deleted after its caller had seen it).
C27_Witness ==
    \E h \in Handlers :
        /\ hs[h].cbResult = "Pending booking not found"
        /\ ~pending_bookings[hs[h].txn].exists
        /\ hs[h].hadPending

\* A RefundRecord of the transaction with status initiated exists.
HasInitiatedRefund(o) ==
    \E r \in refunds : r.originalTransactionId = o /\ r.status = "initiated"

\* C28: in the clinic-closed refund branch of the status poll, the gateway
\* having accepted the refund, the poll answers REFUNDED only in a state where
\* a RefundRecord with status initiated exists for the transaction, and it
\* deletes the PendingBooking only when that RefundRecord has been written.
C28_RefundedAfterRecord ==
    [][\A h \in Handlers :
          (hs[h].pc = "p_refdel" /\ hs'[h] # hs[h])
          => /\ hs'[h].resp = "REFUNDED" => HasInitiatedRefund(hs[h].txn)
             /\ (pending_bookings[hs[h].txn].exists
                    /\ ~pending_bookings'[hs[h].txn].exists)
                    => HasInitiatedRefund(hs[h].txn)]_vars

\* Handler h is inside cleanupOldPendingBookings and takes a step.
Sweeps(h) == hs[h].pc \in {"o_sweep", "o_sweepcommit"} /\ hs'[h] # hs[h]

\* C29: the sweep run by create-order deletes exactly the pending bookings
\* created more than 24 hours ago, whatever their status: its batch commit,
\* when it succeeds, removes every such record and no other; no step of the
\* sweep touches a younger record, a date document, a refund record or a
\* webhook log; and whether the sweep succeeds or fails, the request goes on
\* to the clinic check.
C29_SweepDeletesExactlyOld ==
    [][\A h \in Handlers :
          Sweeps(h)
          => /\ UNCHANGED <<appointment_bookings, refunds, failed_refunds,
                            webhook_logs>>
             /\ \A o \in Orders :
                    (pending_bookings[o].exists /\ ~pending_bookings[o].old)
                    => pending_bookings'[o] = pending_bookings[o]
             /\ (hs[h].pc = "o_sweepcommit" /\ faultsLeft' = faultsLeft)
                    => \A o \in Orders :
                           (pending_bookings[o].exists /\ pending_bookings[o].old)
                           => ~pending_bookings'[o].exists
             /\ hs'[h].pc \in {"o_sweepcommit", "o_clinic"}]_vars

\* C29 witness: a sweep has deleted the old pending bookings while the pending
\* booking another request has just created is in the store, and the sweeping
\* request has gone on.
C29_Witness ==
    \E g, h \in Handlers :
        /\ g # h
        /\ hs[h].deleted
        /\ hs[h].pc \notin {"idle", "o_sweep", "o_sweepcommit"}
        /\ hs[g].resp = "order created"
        /\ pending_bookings[hs[g].txn].exists
        /\ ~pending_bookings[hs[g].txn].old
        /\ \A o \in Orders \ {hs[g].txn} : ~pending_bookings[o].exists

\* The date document of DateA holds Capacity ConfirmedBookings.
DateIsFull == Len(Bookings(formatDateToDocId(DateA))) >= Capacity

\* The pending bookings in status pending.
PendingOrders == {o \in Orders : pending_bookings[o].status = "pending"}

\* C30: pending bookings never reserve or block slots: the pre-check of
\* create-order and the check inside the transaction of confirmBooking refuse
\* exactly when the date document holds Capacity ConfirmedBookings, however
\* many pending bookings, stale or fresh, there are for the date.
C30_PendingBlocksNoSlot ==
    [][\A h \in Handlers :
          /\ (hs[h].pc = "o_slots" /\ hs'[h] # hs[h] /\ faultsLeft' = faultsLeft)
                => (hs'[h].resp = "No slots available for this date" <=> DateIsFull)
          /\ (hs[h].pc = "cb_txread" /\ hs'[h] # hs[h])
                => (hs'[h].cbResult = "No slots available for this date"
                       <=> DateIsFull)]_vars

\* C30 witness: the last slot of the date has been given to one order while
\* the pending booking of another order for the same date, a stale one among
\* them, was in the store.
C30_Witness ==
    \E h \in Handlers :
        /\ hs[h].slot = Capacity
        /\ Cardinality(PendingOrders) = Cardinality(Orders)
        /\ \E o \in PendingOrders : pending_bookings[o].old
        /\ \A o \in PendingOrders : pending_bookings[o].date = DateA

\* The positions of a handler inside confirmBooking.
ConfirmPcs == {"cb_get", "cb_txread", "cb_txcommit", "cb_update"}

\* C31: every confirmBooking call terminates under contention on the date
\* document: the transaction is attempted MaxAttempts times at most, a call
\* that is inside confirmBooking eventually leaves it with a commit or a
\* failure result, and the call that gives up after the last refused attempt
\* has appended no booking.
C31_ConfirmTerminates ==
    /\ [](\A h \in Handlers : hs[h].attempts < MaxAttempts)
    /\ [][\A h \in Handlers :
             (hs[h].pc = "cb_txcommit" /\ hs'[h].pc \notin ConfirmPcs)
             => /\ hs[h].attempts + 1 = MaxAttempts
                /\ hs'[h].cbResult = "Failed to confirm booking"
                /\ hs'[h].slot = 0
                /\ UNCHANGED appointment_bookings]_vars
    /\ <>[](\A h \in Handlers : hs[h].pc \notin ConfirmPcs)

\* C31 witness: a call has returned the contention failure: its last attempt
\* was refused, and the date document holds bookings of other orders only.
C31_Witness ==
    \E h \in Handlers :
        /\ hs[h].pc = "done"
        /\ hs[h].cbResult = "Failed to confirm booking"
        /\ hs[h].slot = 0
        /\ ~Confirmed(hs[h].txn)
        /\ Len(Bookings(formatDateToDocId(DateA))) >= MaxAttempts

\* Handler h has received a success signal for order o (the status poll got
\* SUCCESS from the gateway, or a validated success webhook passed the
\* signature check) and from here on no store operation fails.
SuccessSignalHandled(h, o) ==
    /\ faultsLeft = 0
    /\ gateway[o] = "SUCCESS"
    /\ hs[h].txn = o
    /\ \/ hs[h].kind = "poll" /\ hs[h].pc = "p_clinic"
       \/ hs[h].kind = "webhook" /\ hs[h].ev \in SuccessEvents /\ hs[h].pc = "w_log"
       \/ /\ hs[h].kind = "webhook" /\ hs[h].ev \in SuccessEvents
          /\ hs[h].pc = "done" /\ hs[h].resp = "Webhook already processed"

\* The order is reconciled: its booking is confirmed and its pending booking
\* is deleted.
Reconciled(o) == Confirmed(o) /\ ~pending_bookings[o].exists

\* C32: for a paid order, the clinic open and the date not full, once a status
\* poll or a success webhook of the order is handled and store operations no
\* longer fail, eventually the order has a confirmed booking and its pending
\* booking is deleted.
C32_ReconciliationLive ==
    \A h \in Handlers, o \in Orders :
        SuccessSignalHandled(h, o) ~> Reconciled(o)

\* C33: the gateway accepted at most one refund for each transaction, however
\* many status polls of the paid transaction found the clinic closed, at the
\* same time or one after another.
C33_AtMostOneRefund ==
    \A o \in Orders : gw_refunds[o] <= 1

\* C34: no transaction has both a refund record in refunds and a record in
\* failed_refunds (status 'manual_required'): what waits for a manual refund
\* was not also refunded automatically.
C34_ManualOrAutomatic ==
    \A o \in Orders : ~(HasRefundRecord(o) /\ o \in failed_refunds)

\* Handler h returns from confirmBooking in this step.
ConfirmReturns(h) == hs[h].pc \in ConfirmPcs /\ hs'[h].pc \notin ConfirmPcs

\* C35: confirmBooking returns success exactly when its transaction committed
\* a booking (the call was given a slot): a call that returns success: false
\* has appended no booking to a date document.
C35_SuccessIffCommitted ==
    [][\A h \in Handlers :
          ConfirmReturns(h) => (hs'[h].cbResult = "success" <=> hs'[h].slot > 0)]_vars

\* Handler h takes a step inside confirmBooking.
ConfirmActs(h) == hs[h].pc \in ConfirmPcs /\ hs'[h] # hs[h]

\* The transaction of handler h commits in this step.
Commits(h) == hs[h].pc = "cb_txcommit" /\ hs'[h].pc = "cb_update"

\* The one booking the commit of handler h appends: the next slot, the orderId
\* and the patient data of the pending booking of the order, at the end of the
\* document of the order's date; every other date document stays as it was.
AppendsOwnBooking(h) ==
    LET o == hs[h].txn
        docId == formatDateToDocId(OrderDate(o))
        before == appointment_bookings[docId].bookings
        after == appointment_bookings'[docId].bookings IN
    /\ Len(after) = Len(before) + 1
    /\ SubSeq(after, 1, Len(before)) = before
    /\ after[Len(after)].orderId = o
    /\ after[Len(after)].patient = PendingDoc(o).patient
    /\ \A other \in FrameDocIds \ {docId} :
           appointment_bookings'[other] = appointment_bookings[other]

\* C36: a successful confirmBooking of an order appends exactly one booking,
\* with the orderId and the patient data of the pending booking, to the
\* document of the pending booking's date, and changes no other date document:
\* the call returns success only after its commit, the commit appends that
\* booking there, and no other step of the call writes a date document.
C36_AppendsOneToOwnDate ==
    [][\A h \in Handlers :
          /\ (ConfirmReturns(h) /\ hs'[h].cbResult = "success")
                 => (hs[h].pc = "cb_update" /\ hs[h].slot > 0)
          /\ Commits(h) => AppendsOwnBooking(h)
          /\ (ConfirmActs(h) /\ ~Commits(h)) => UNCHANGED appointment_bookings]_vars

\* confirmBooking of the order of the second date returned success; its booking
\* is the last of the second date's document and the first date's document has
\* no booking of it.
C36_Witness ==
    \E h \in Handlers :
        LET own == appointment_bookings[formatDateToDocId(DateB)].bookings
            other == appointment_bookings[formatDateToDocId(DateA)].bookings IN
        /\ hs[h].txn = "o2"
        /\ hs[h].cbResult = "success"
        /\ Len(own) = Capacity
        /\ own[Len(own)].orderId = "o2"
        /\ \A i \in 1..Len(other) : other[i].orderId # "o2"

AsksClinic(h) == hs[h].pc \in {"p_clinic", "o_clinic"} /\ hs'[h].pc # hs[h].pc

\* Handler h answers an administrative request of the given kind in this step.
AdminAnswers(h, kind) == hs[h].pc = "idle" /\ hs'[h].kind = kind

\* control-clinic answered success: the control document is the override with
\* exactly the closedFrom and closedTill of the request.
WritesWindow(h) ==
    (AdminAnswers(h, "control-clinic")
        /\ hs'[h].resp = "Clinic control updated successfully")
    => clinic_control' = [exists |-> TRUE, isManuallyOverridden |-> TRUE,
                          closedFrom |-> hs'[h].closedFrom,
                          closedTill |-> hs'[h].closedTill]

\* turn-on-clinic answered success: the override is off.
TurnsOn(h) ==
    (AdminAnswers(h, "turn-on-clinic")
        /\ hs'[h].resp = "Clinic bookings turned on successfully")
    => clinic_control'.exists /\ ~clinic_control'.isManuallyOverridden

\* control-clinic of an admin with closedTill earlier than closedFrom is
\* rejected and the control document stays as it was.
RejectsReversed(h) ==
    (AdminAnswers(h, "control-clinic") /\ hs'[h].resp # "Admin access required"
        /\ Defined(hs'[h].closedFrom) /\ Defined(hs'[h].closedTill)
        /\ hs'[h].closedTill < hs'[h].closedFrom)
    => (hs'[h].resp = "closedTill must be after closedFrom"
           /\ UNCHANGED clinic_control)

\* Only a step in which an administrative request is answered success changes
\* the control document: no step of a create-order, a status poll or a
\* webhook, and no passing of a day, writes it.
OnlyAdminWrites ==
    (\A h \in Handlers :
        ~(hs[h].pc = "idle"
             /\ hs'[h].resp \in {"Clinic control updated successfully",
                                 "Clinic bookings turned on successfully"}))
    => UNCHANGED clinic_control

\* The answer handler h gets is closed exactly on the days of the period the
\* control document holds (no day when the override is off).
ReportsStored(h) ==
    hs'[h].clinicStatus = "closed" <=> InClosedPeriod(clinic_control, today)

\* C38: a successful control-clinic(closedFrom, closedTill) stores exactly that
\* period and a successful turn-on-clinic stores the override off; what is
\* stored stays until the next successful administrative request, whatever
\* create-order, polls and webhooks do; isClinicOpen reports closed exactly on
\* the days closedFrom <= d <= closedTill of the stored period (all days from
\* closedFrom on when closedTill is left out) and open on every day once turned
\* on; a control-clinic with closedTill before closedFrom is rejected and
\* writes nothing.
C38_AdminControlsClinic ==
    [][/\ \A h \in Handlers :
             /\ WritesWindow(h)
             /\ TurnsOn(h)
             /\ RejectsReversed(h)
             /\ AsksClinic(h) => ReportsStored(h)
       /\ OnlyAdminWrites]_vars

\* C38 as it holds: the same, for the answers of isClinicOpen whose read of the
\* control document succeeded (a read that fails is answered open).
C38_AdminControlsClinicWhenRead ==
    [][/\ \A h \in Handlers :
             /\ WritesWindow(h)
             /\ TurnsOn(h)
             /\ RejectsReversed(h)
             /\ (AsksClinic(h) /\ faultsLeft' = faultsLeft) => ReportsStored(h)
       /\ OnlyAdminWrites]_vars

\* An admin closed the clinic from a later day on; that day has come, and a
\* request that read the control document the admin wrote was told closed.
C38_Witness ==
    \E g \in Handlers, h \in Handlers :
        /\ hs[g].kind = "control-clinic"
        /\ hs[g].resp = "Clinic control updated successfully"
        /\ clinic_control.closedFrom = hs[g].closedFrom
        /\ clinic_control.closedTill = hs[g].closedTill
        /\ hs[g].closedFrom > DateA[3]
        /\ today >= hs[g].closedFrom
        /\ hs[h].clinicStatus = "closed"

=============================================================================
